---- MODULE Spec2Model ----
(***************************************************************************)
(* Model of src/src/tiff.c of the slide viewer: the TIFF / BigTIFF reader  *)
(* (open_tiff_file, tiff_read_ifd), the block codec (tiff_serialize) and   *)
(* the reconstructor (tiff_deserialize).                                   *)
(*                                                                         *)
(* Memory is modelled at byte level.  A byte is a number 0..255, a buffer  *)
(* a sequence of bytes, the host is little-endian (the code's "native").   *)
(* A pointer is a record [null, size, bytes]: NULL, or an allocation of    *)
(* `size` bytes holding `bytes`.                                           *)
(***************************************************************************)
EXTENDS Integers, Sequences, FiniteSets, TLC

(***************************************************************************)
(* Bounds of the model.                                                    *)
(***************************************************************************)
\* largest ifd_count of an Image handed to tiff_serialize / of a stream
MaxIfds == 2
\* largest tile_count, image_description_length and jpeg_tables_length
MaxLen == 1

(***************************************************************************)
(* Bytes and integers.                                                     *)
(***************************************************************************)
Pow256(k) == IF k = 0 THEN 1 ELSE IF k = 1 THEN 256 ELSE IF k = 2 THEN 65536 ELSE 16777216

\* Every value the model converts to a number is below Huge = 2^24; a wider
\* value (a byte-swapped offset, say) saturates at Huge.
Huge == Pow256(3)

\* the w bytes of the unsigned integer n, lowest byte first (n < Huge)
LE(n, w) == [i \in 1..w |-> IF i <= 3 THEN (n \div Pow256(i - 1)) % 256 ELSE 0]

\* the unsigned integer held in the bytes b, lowest byte first, saturating
U(b) ==
    IF \E i \in DOMAIN b : i > 3 /\ b[i] # 0 THEN Huge
    ELSE (IF Len(b) >= 1 THEN b[1] ELSE 0)
       + (IF Len(b) >= 2 THEN b[2] * 256 ELSE 0)
       + (IF Len(b) >= 3 THEN b[3] * 65536 ELSE 0)

\* n bytes of s starting at the 0-based offset off
Slice(s, off, n) == SubSeq(s, off + 1, off + n)

Zeros(n) == [i \in 1..n |-> 0]

Min(a, b) == IF a < b THEN a ELSE b
Max(a, b) == IF a > b THEN a ELSE b

RECURSIVE Concat(_)
Concat(ss) == IF ss = <<>> THEN <<>> ELSE Head(ss) \o Concat(Tail(ss))

(***************************************************************************)
(* Pointers and allocations.                                               *)
(***************************************************************************)
NULL == [null |-> TRUE, size |-> 0, bytes |-> <<>>]

\* an allocation of size bytes whose first bytes are b, the rest zero
Mem(b, size) == [null |-> FALSE, size |-> size, bytes |-> b \o Zeros(size - Len(b))]

\* malloc(0) is implementation-defined: NULL, or a pointer to 0 bytes.
\* malloc of a positive size is taken to succeed.
Malloc(size) ==
    IF size = 0 THEN {NULL, Mem(<<>>, 0)} ELSE {Mem(<<>>, size)}

(***************************************************************************)
(* The serial block stream (tiff.c:551-563, types of tiff.h).              *)
(***************************************************************************)
SERIAL_BLOCK_LZ4_COMPRESSED_DATA == 0
SERIAL_BLOCK_TIFF_HEADER_AND_META == 9001
SERIAL_BLOCK_TIFF_IFDS == 9002
SERIAL_BLOCK_TIFF_IMAGE_DESCRIPTION == 9003
SERIAL_BLOCK_TIFF_TILE_OFFSETS == 9004
SERIAL_BLOCK_TIFF_TILE_BYTE_COUNTS == 9005
SERIAL_BLOCK_TIFF_JPEG_TABLES == 9006
SERIAL_BLOCK_TERMINATOR == 800

\* sizeof(serial_block_t): u32 block_type, u32 index, u64 length
SizeofSerialBlock == 16

\* tiff.h is not among the sources, so the widths of the scalars of
\* tiff_serial_header_t and tiff_serial_ifd_t are not known: the model
\* stores each of them in FieldBytes bytes.
FieldBytes == 2
\* the 12 scalars of tiff_serial_header_t, the 19 of tiff_serial_ifd_t
SizeofSerialHeader == 12 * FieldBytes
SizeofSerialIfd == 19 * FieldBytes

PayloadTypes ==
    { SERIAL_BLOCK_TIFF_IMAGE_DESCRIPTION, SERIAL_BLOCK_TIFF_TILE_OFFSETS,
      SERIAL_BLOCK_TIFF_TILE_BYTE_COUNTS, SERIAL_BLOCK_TIFF_JPEG_TABLES }

\* the bytes of a serial_block_t
BlockBytes(block_type, index, block_length) ==
    LE(block_type, 4) \o LE(index, 4) \o LE(block_length, 8)

\* the push_buffer_t after push_size(buffer, data, size): the process exits
\* when the bytes do not fit, and stays exited
push_size(buffer, data) ==
    IF buffer.exited \/ buffer.used_size + Len(data) > buffer.capacity
    THEN [buffer EXCEPT !.exited = TRUE]
    ELSE [buffer EXCEPT !.data = buffer.data \o data,
                        !.used_size = buffer.used_size + Len(data)]

push_block(buffer, block_type, index, block_length) ==
    push_size(buffer, BlockBytes(block_type, index, block_length))

(***************************************************************************)
(* The HTTP envelope (tiff.c:638-642).                                     *)
(***************************************************************************)
\* "HTTP/1.1 200 OK\r\nConnection: close\r\n
\*  Content-type: application/octet-stream\r\nContent-length: "
HttpPrefix ==
    << 72, 84, 84, 80, 47, 49, 46, 49, 32, 50, 48, 48, 32, 79, 75, 13, 10,
       67, 111, 110, 110, 101, 99, 116, 105, 111, 110, 58, 32, 99, 108, 111,
       115, 101, 13, 10,
       67, 111, 110, 116, 101, 110, 116, 45, 116, 121, 112, 101, 58, 32, 97,
       112, 112, 108, 105, 99, 97, 116, 105, 111, 110, 47, 111, 99, 116, 101,
       116, 45, 115, 116, 114, 101, 97, 109, 13, 10,
       67, 111, 110, 116, 101, 110, 116, 45, 108, 101, 110, 103, 116, 104,
       58, 32 >>

CRLFCRLF == << 13, 10, 13, 10 >>

\* the decimal digits of n, as characters ("%llu")
RECURSIVE Decimal(_)
Decimal(n) == IF n < 10 THEN << 48 + n >> ELSE Decimal(n \div 10) \o << 48 + (n % 10) >>

\* "%-16llu": left-justified, padded with spaces to 16 characters
PadLeftJustified(s, width) ==
    s \o [i \in 1..(IF Len(s) < width THEN width - Len(s) ELSE 0) |-> 32]

http_headers(total_size) ==
    HttpPrefix \o PadLeftJustified(Decimal(total_size), 16) \o CRLFCRLF

\* the number a reader of the headers finds after "Content-length: "
RECURSIVE ParseDecimal(_, _)
ParseDecimal(s, acc) ==
    IF s = <<>> \/ Head(s) < 48 \/ Head(s) > 57 THEN acc
    ELSE ParseDecimal(Tail(s), acc * 10 + (Head(s) - 48))

ContentLength(headers) ==
    ParseDecimal(SubSeq(headers, Len(HttpPrefix) + 1, Len(headers)), 0)

(***************************************************************************)
(* The Image descriptor: tiff_t and tiff_ifd_t.                            *)
(***************************************************************************)
TIFF_UNKNOWN_SUBIMAGE == 0
TIFF_LEVEL_SUBIMAGE == 1
TIFF_MACRO_SUBIMAGE == 2
TIFF_LABEL_SUBIMAGE == 3

\* tiff_ifd_t ifd = { .ifd_index = i }: every other field zero
ZeroIfd(i) ==
    [ ifd_index |-> i, tiff_subfiletype |-> 0,
      image_width |-> 0, image_height |-> 0, tile_width |-> 0, tile_height |-> 0,
      tile_count |-> 0, tile_offsets |-> NULL, tile_byte_counts |-> NULL,
      image_description |-> NULL, image_description_length |-> 0,
      jpeg_tables |-> NULL, jpeg_tables_length |-> 0,
      compression |-> 0, color_space |-> 0, subimage_type |-> TIFF_UNKNOWN_SUBIMAGE,
      level_magnification |-> 0, width_in_tiles |-> 0, height_in_tiles |-> 0,
      um_per_pixel_x |-> 0, um_per_pixel_y |-> 0,
      x_tile_side_in_um |-> 0, y_tile_side_in_um |-> 0,
      chroma_subsampling_horizontal |-> 0, chroma_subsampling_vertical |-> 0,
      reference_black_white_rational_count |-> 0, reference_black_white |-> NULL ]

\* a zeroed tiff_t
ZeroTiff ==
    [ filesize |-> 0, ifd_count |-> 0, ifds |-> <<>>,
      main_image_index |-> 0, macro_image_index |-> 0, label_image_index |-> 0,
      level_count |-> 0, level_image_index |-> 0, bytesize_of_offsets |-> 0,
      is_bigtiff |-> 0, is_big_endian |-> 0, mpp_x |-> 0, mpp_y |-> 0,
      is_remote |-> 0 ]

\* the first n bytes behind the pointer p (n = 0 reads nothing, also of NULL)
PtrRead(p, n) == SubSeq(p.bytes, 1, n)

\* the u64 array behind p, as numbers
U64s(p) == [k \in 1..(p.size \div 8) |-> U(Slice(p.bytes, 8 * (k - 1), 8))]

(***************************************************************************)
(* The Images handed to tiff_serialize.  An IFD has tile_count tc and,     *)
(* for d and j, -1 for a NULL image_description / jpeg_tables or the       *)
(* length of the blob.  The buffers are sized as the parser sizes them.    *)
(***************************************************************************)
FullShape == [tc |-> MaxLen, d |-> MaxLen, j |-> MaxLen]
EmptyShape == [tc |-> 0, d |-> -1, j |-> -1]

IfdShapes ==
    {[FullShape EXCEPT !.tc = t] : t \in 0..MaxLen}
    \cup {[FullShape EXCEPT !.d = x] : x \in (-1)..MaxLen}
    \cup {[FullShape EXCEPT !.j = x] : x \in (-1)..MaxLen}
    \cup {EmptyShape}

Blob(len, first) ==
    IF len < 0 THEN NULL ELSE Mem([k \in 1..len |-> first + k], Max(8, len + 1))

MkIfd(i, s) ==
    [ ZeroIfd(i) EXCEPT
      !.image_width = 512 * s.tc, !.image_height = 512,
      !.tile_width = 512, !.tile_height = 512,
      !.tile_count = s.tc,
      !.tile_offsets =
          IF s.tc = 0 THEN NULL
          ELSE Mem(Concat([k \in 1..s.tc |-> LE(1000 * (i + 1) + k, 8)]), 8 * s.tc),
      !.tile_byte_counts =
          IF s.tc = 0 THEN NULL
          ELSE Mem(Concat([k \in 1..s.tc |-> LE(100 * (i + 1) + k, 8)]), 8 * s.tc),
      !.image_description = Blob(s.d, 96 + 8 * i),
      !.image_description_length = Max(0, s.d),
      !.jpeg_tables = Blob(s.j, 200 + 8 * i),
      !.jpeg_tables_length = Max(0, s.j),
      !.compression = 7, !.color_space = 6,
      !.subimage_type = TIFF_LEVEL_SUBIMAGE,
      !.width_in_tiles = s.tc, !.height_in_tiles = 1,
      !.um_per_pixel_x = 25, !.um_per_pixel_y = 25,
      !.x_tile_side_in_um = 128, !.y_tile_side_in_um = 128,
      !.chroma_subsampling_horizontal = 2, !.chroma_subsampling_vertical = 2 ]

MkImage(shapes) ==
    [ ZeroTiff EXCEPT
      !.filesize = 4096,
      !.ifd_count = Len(shapes),
      !.ifds = [k \in 1..Len(shapes) |-> MkIfd(k - 1, shapes[k])],
      !.level_count = Len(shapes),
      !.bytesize_of_offsets = 4,
      !.mpp_x = 25, !.mpp_y = 25 ]

\* the tuples of length n that are base everywhere, or everywhere but at
\* one place, where they are a member of S
Tuples(n, base, S) ==
    {[i \in 1..n |-> base]}
    \cup {[i \in 1..n |-> IF i = k THEN x ELSE base] : k \in 1..n, x \in S}

Images ==
    { MkImage(shapes) :
        shapes \in UNION { Tuples(n, FullShape, IfdShapes)
                            \cup {[i \in 1..n |-> EmptyShape]} : n \in 0..MaxIfds } }

(***************************************************************************)
(* tiff_serialize: the fixed records and the total size (tiff.c:569-635).  *)
(***************************************************************************)
F(v) == LE(v, FieldBytes)

\* tiff_serial_header_t serial_header = { ... }
SerialHeaderBytes(t) ==
    Concat(<< F(t.filesize), F(t.ifd_count), F(t.main_image_index),
              F(t.macro_image_index), F(t.label_image_index), F(t.level_count),
              F(t.level_image_index), F(t.bytesize_of_offsets), F(t.is_bigtiff),
              F(t.is_big_endian), F(t.mpp_x), F(t.mpp_y) >>)

\* *serial_ifd = (tiff_serial_ifd_t) { ... }
SerialIfdBytes(ifd) ==
    Concat(<< F(ifd.image_width), F(ifd.image_height), F(ifd.tile_width),
              F(ifd.tile_height), F(ifd.tile_count), F(ifd.image_description_length),
              F(ifd.jpeg_tables_length), F(ifd.compression), F(ifd.color_space),
              F(ifd.level_magnification), F(ifd.width_in_tiles), F(ifd.height_in_tiles),
              F(ifd.um_per_pixel_x), F(ifd.um_per_pixel_y), F(ifd.x_tile_side_in_um),
              F(ifd.y_tile_side_in_um), F(ifd.chroma_subsampling_horizontal),
              F(ifd.chroma_subsampling_vertical), F(ifd.subimage_type) >>)

SerialIfdsBytes(t) == Concat([k \in 1..t.ifd_count |-> SerialIfdBytes(t.ifds[k])])

RECURSIVE SumOver(_, _)
SumOver(f, n) == IF n = 0 THEN 0 ELSE f[n] + SumOver(f, n - 1)

\* the bytes one IFD adds to total_size in the loop of tiff.c:593-623
IfdPayloadSize(ifd) ==
    ifd.image_description_length + ifd.jpeg_tables_length
    + ifd.tile_count * 8 + ifd.tile_count * 8

TotalSize(t) ==
    SizeofSerialBlock + SizeofSerialHeader
    + SizeofSerialBlock
    + SumOver([k \in 1..t.ifd_count |-> IfdPayloadSize(t.ifds[k])], t.ifd_count)
    + t.ifd_count * SizeofSerialIfd
    + 4 * (t.ifd_count * SizeofSerialBlock)
    + SizeofSerialBlock

(***************************************************************************)
(* State.                                                                  *)
(***************************************************************************)
VARIABLES
    pc,          \* where the running call stands, or how it ended
    tiff,        \* the two tiff_t objects of the caller: tiff[1], tiff[2]
    buffer,      \* the push_buffer_t of tiff_serialize
    ser,         \* locals of tiff_serialize
    input,       \* the bytes handed to tiff_deserialize
    des,         \* locals of tiff_deserialize
    success,     \* the value the last call returned
    heap,        \* the allocations that are live and not owned by a tiff_t
    lz4,         \* what the LZ4 library maps to what: [comp, plain]
    done_blocks, \* history: the payload blocks the block loop has accepted
    file,        \* the bytes of the two TIFF files on disk: file[1], file[2]
    fp           \* open_tiff_file: which file is open, its next_ifd_offset, results

vars == << pc, tiff, buffer, ser, input, des, success, heap, lz4, done_blocks, file, fp >>

NoBuffer == [http |-> <<>>, data |-> <<>>, used_size |-> 0, capacity |-> 0, exited |-> FALSE]
NoSer == [total_size |-> 0, http_headers_size |-> 0, i |-> 0, compressed_size |-> 0]
NoBlock == [block_type |-> 0, index |-> 0, length |-> 0]
NoDes ==
    [ pos |-> 0, bytes_left |-> 0, decompressed |-> FALSE, data |-> 0,
      block |-> NoBlock, decompressed_buffer |-> NULL, content_offset |-> 0,
      bytes_decompressed |-> 0, write_alloc |-> 0, write_end |-> 0, at |-> "none" ]
NoLz4 == [comp |-> <<>>, plain |-> <<>>]
NoFiles == << <<>>, <<>> >>
\* ifd is the local of the body of the IFD loop (tiff.c:480)
NoFp ==
    [ k |-> 1, next_ifd_offset |-> Zeros(8), result |-> << FALSE, FALSE >>,
      ifd |-> ZeroIfd(0) ]

(***************************************************************************)
(* tiff_serialize(tiff[1], buffer), tiff.c:567-706.                        *)
(***************************************************************************)
\* LZ4_COMPRESSBOUND of lz4.h
LZ4_COMPRESSBOUND(n) == n + (n \div 255) + 16

\* LZ4_compress_default is a library call: the model only knows that it
\* returns 0 (failure) or a size up to the destination capacity, and that
\* LZ4_decompress_safe inverts it.  These sizes stand for the cases: failure,
\* a good ratio, the largest size that fits the push buffer behind the block
\* header, one byte more, and the bound.
CompressedSizes(total_size) ==
    { 0, total_size \div 2, total_size - SizeofSerialBlock,
      total_size - SizeofSerialBlock + 1, LZ4_COMPRESSBOUND(total_size) }

\* the compressed bytes: opaque to the program
CompressedBytes(n) == [k \in 1..n |-> 76]

\* tiff.c:637-652
SerBegin ==
    /\ pc = "ser_begin"
    /\ LET total_size == TotalSize(tiff[1])
           headers == http_headers(total_size)
       IN  /\ buffer' = [ http |-> headers, data |-> <<>>, used_size |-> 0,
                          capacity |-> total_size, exited |-> FALSE ]
           /\ ser' = [ ser EXCEPT !.total_size = total_size,
                                  !.http_headers_size = Len(headers), !.i = 0 ]
    /\ heap' = heap \cup {"raw_memory"}
    /\ pc' = "ser_meta"
    /\ UNCHANGED << tiff, input, file, fp, des, success, lz4, done_blocks >>

\* tiff.c:654-658
SerializeMeta(b, t) ==
    LET b1 == push_block(b, SERIAL_BLOCK_TIFF_HEADER_AND_META, 0, SizeofSerialBlock)
        b2 == push_size(b1, SerialHeaderBytes(t))
        b3 == push_block(b2, SERIAL_BLOCK_TIFF_IFDS, 0, t.ifd_count * SizeofSerialIfd)
    IN  push_size(b3, SerialIfdsBytes(t))

SerMeta ==
    /\ pc = "ser_meta"
    /\ buffer' = SerializeMeta(buffer, tiff[1])
    /\ pc' = IF buffer'.exited THEN "exited" ELSE "ser_ifd"
    /\ UNCHANGED << tiff, ser, input, file, fp, des, success, heap, lz4, done_blocks >>

SerializeIfdBlocks_swapped(b, ifd, i) ==
    LET b1 == push_block(b, SERIAL_BLOCK_TIFF_IMAGE_DESCRIPTION, i, ifd.image_description_length)
        b2 == push_size(b1, PtrRead(ifd.image_description, ifd.image_description_length))
        b3 == push_block(b2, SERIAL_BLOCK_TIFF_TILE_BYTE_COUNTS, i, ifd.tile_count * 8)
        b4 == push_size(b3, PtrRead(ifd.tile_byte_counts, ifd.tile_count * 8))
        b5 == push_block(b4, SERIAL_BLOCK_TIFF_TILE_OFFSETS, i, ifd.tile_count * 8)
        b6 == push_size(b5, PtrRead(ifd.tile_offsets, ifd.tile_count * 8))
        b7 == push_block(b6, SERIAL_BLOCK_TIFF_JPEG_TABLES, i, ifd.jpeg_tables_length)
    IN  push_size(b7, PtrRead(ifd.jpeg_tables, ifd.jpeg_tables_length))

\* one pass of the loop of tiff.c:660-677
SerializeIfdBlocks(b, ifd, i) ==
    LET b1 == push_block(b, SERIAL_BLOCK_TIFF_IMAGE_DESCRIPTION, i, ifd.image_description_length)
        b2 == push_size(b1, PtrRead(ifd.image_description, ifd.image_description_length))
        tile_offsets_size == ifd.tile_count * 8
        b3 == push_block(b2, SERIAL_BLOCK_TIFF_TILE_OFFSETS, i, tile_offsets_size)
        b4 == push_size(b3, PtrRead(ifd.tile_offsets, tile_offsets_size))
        tile_byte_counts_size == ifd.tile_count * 8
        b5 == push_block(b4, SERIAL_BLOCK_TIFF_TILE_BYTE_COUNTS, i, tile_byte_counts_size)
        b6 == push_size(b5, PtrRead(ifd.tile_byte_counts, tile_byte_counts_size))
        b7 == push_block(b6, SERIAL_BLOCK_TIFF_JPEG_TABLES, i, ifd.jpeg_tables_length)
    IN  push_size(b7, PtrRead(ifd.jpeg_tables, ifd.jpeg_tables_length))

SerIfd ==
    /\ pc = "ser_ifd"
    /\ ser.i < tiff[1].ifd_count
    /\ buffer' = SerializeIfdBlocks(buffer, tiff[1].ifds[ser.i + 1], ser.i)
    /\ ser' = [ser EXCEPT !.i = ser.i + 1]
    /\ pc' = IF buffer'.exited THEN "exited" ELSE "ser_ifd"
    /\ UNCHANGED << tiff, input, file, fp, des, success, heap, lz4, done_blocks >>

\* tiff.c:679
SerTerminator ==
    /\ pc = "ser_ifd"
    /\ ~(ser.i < tiff[1].ifd_count)
    /\ buffer' = push_block(buffer, SERIAL_BLOCK_TERMINATOR, 0, 0)
    /\ pc' = IF buffer'.exited THEN "exited" ELSE "ser_lz4"
    /\ UNCHANGED << tiff, ser, input, file, fp, des, success, heap, lz4, done_blocks >>

\* the Content-length the headers are rewritten with, tiff.c:696-698
RewrittenContentLength(total_size, used_size) == total_size

\* tiff.c:685-704
SerCompress ==
    /\ pc = "ser_lz4"
    /\ \E compressed_size \in CompressedSizes(ser.total_size) :
          /\ ser' = [ser EXCEPT !.compressed_size = compressed_size]
          /\ IF compressed_size > 0
             THEN LET b0 == [buffer EXCEPT !.used_size = 0, !.data = <<>>]
                      b1 == push_block(b0, SERIAL_BLOCK_LZ4_COMPRESSED_DATA,
                                       ser.total_size, compressed_size)
                      b2 == push_size(b1, CompressedBytes(compressed_size))
                  IN  /\ buffer' =
                            IF b2.exited THEN b2
                            ELSE [b2 EXCEPT !.http = http_headers(
                                     RewrittenContentLength(ser.total_size, b2.used_size))]
                      /\ lz4' = [comp |-> CompressedBytes(compressed_size),
                                 plain |-> buffer.data]
             ELSE UNCHANGED << buffer, lz4 >>
    /\ pc' = IF buffer'.exited THEN "exited" ELSE "serialized"
    /\ UNCHANGED << tiff, input, file, fp, des, success, heap, done_blocks >>

(***************************************************************************)
(* tiff_deserialize(tiff[2], input, Len(input)), tiff.c:708-950.           *)
(***************************************************************************)
\* the buffer pos points into: the input, or the decompressed buffer
Current(d) == IF d.decompressed THEN d.decompressed_buffer.bytes ELSE input

\* pop_from_buffer: whether size bytes are left
CanPop(d, size) == ~(size > d.bytes_left)

\* pop_from_buffer: data = old pos, pos += size, bytes_left -= size
pop_from_buffer(d, size) ==
    [d EXCEPT !.data = d.pos, !.pos = d.pos + size, !.bytes_left = d.bytes_left - size]

\* pop_block_from_buffer: the serial_block_t at pos
pop_block_from_buffer(d) ==
    LET raw == Slice(Current(d), d.pos, SizeofSerialBlock)
    IN  [ pop_from_buffer(d, SizeofSerialBlock) EXCEPT
          !.block = [ block_type |-> U(SubSeq(raw, 1, 4)),
                      index |-> U(SubSeq(raw, 5, 8)),
                      length |-> U(SubSeq(raw, 9, 16)) ] ]

\* the bytes POP_DATA made data point to
PoppedData(d, size) == Slice(Current(d), d.data, size)

\* the offsets the loop of find_end_of_http_headers visits: offset < len - 4
ScannedOffsets(len) == 0..(len - 5)

\* find_end_of_http_headers for len >= 4: 4 past the first scanned offset
\* that holds "\r\n\r\n", 0 when none does
find_end_of_http_headers(str, len) ==
    LET hits == { o \in ScannedOffsets(len) : Slice(str, o, 4) = CRLFCRLF }
    IN  IF hits = {} THEN 0
        ELSE 4 + (CHOOSE o \in hits : \A o2 \in hits : o <= o2)

\* For len < 4 the bound len - 4 wraps around (u64) and the scan leaves the
\* buffer: it faults, or finds the key in foreign memory at an offset whose
\* result is past the end of the buffer.
HeaderScanOutcomes(str, len) ==
    IF len >= 4 THEN { find_end_of_http_headers(str, len) }
    ELSE { -1, len + 4 }

\* goto failed: free the scratch buffer, return false
Failed(d, where) ==
    /\ pc' = "returned"
    /\ success' = FALSE
    /\ des' = [d EXCEPT !.at = where]
    /\ heap' = heap \ {"decompressed_buffer"}

\* tiff.c:759-764
DesBegin ==
    /\ pc = "des_begin"
    /\ \E content_offset \in HeaderScanOutcomes(input, Len(input)) :
          LET d0 == [ NoDes EXCEPT !.bytes_left = Len(input),
                                   !.content_offset = content_offset ]
          IN  IF content_offset < 0
              THEN /\ pc' = "crashed"
                   /\ des' = [d0 EXCEPT !.at = "scan"]
                   /\ UNCHANGED << success, heap >>
              ELSE IF ~CanPop(d0, content_offset) THEN Failed(d0, "begin")
              ELSE LET d1 == pop_from_buffer(d0, content_offset)
                   IN  IF ~CanPop(d1, SizeofSerialBlock) THEN Failed(d1, "begin")
                       ELSE /\ des' = pop_block_from_buffer(d1)
                            /\ pc' = "des_lz4"
                            /\ UNCHANGED << success, heap >>
    /\ UNCHANGED << tiff, buffer, ser, input, file, fp, lz4, done_blocks >>

\* LZ4_decompress_safe(src, dst, compressed_size, capacity): the number of
\* bytes written, negative for a malformed source or a dst too small
LZ4_decompress_safe(src, capacity) ==
    IF src # <<>> /\ src = lz4.comp /\ Len(lz4.plain) <= capacity
    THEN Len(lz4.plain) ELSE -1

Lz4Accept_tolerant(bytes_decompressed, decompressed_size) == bytes_decompressed > 0

\* tiff.c:775-783: the decompressed stream is used only when
\* bytes_decompressed > 0 and equals the expected size
Lz4Accept(bytes_decompressed, decompressed_size) ==
    bytes_decompressed > 0 /\ ~(bytes_decompressed # decompressed_size)

HeaderTypeOk_any(block) == TRUE

\* tiff.c:790
HeaderTypeOk(block) == ~(block.block_type # SERIAL_BLOCK_TIFF_HEADER_AND_META)

\* tiff.c:766-790
DesLz4 ==
    /\ pc = "des_lz4"
    /\ IF des.block.block_type = SERIAL_BLOCK_LZ4_COMPRESSED_DATA
       THEN LET compressed_size == des.block.length
                decompressed_size == des.block.index
            IN  IF ~CanPop(des, compressed_size) THEN Failed(des, "lz4")
                ELSE \E p \in Malloc(decompressed_size) :
                     LET d1 == pop_from_buffer(des, compressed_size)
                         n == LZ4_decompress_safe(PoppedData(d1, compressed_size),
                                                  decompressed_size)
                         d2 == [ d1 EXCEPT
                                 !.bytes_decompressed = n,
                                 !.decompressed_buffer =
                                     IF p.null THEN p
                                     ELSE Mem(IF n > 0 THEN lz4.plain ELSE <<>>, p.size) ]
                         d3 == [ d2 EXCEPT !.decompressed = TRUE, !.pos = 0,
                                           !.bytes_left = n ]
                         live == IF p.null THEN heap ELSE heap \cup {"decompressed_buffer"}
                     IN  IF Lz4Accept(n, decompressed_size)
                         THEN IF ~CanPop(d3, SizeofSerialBlock)
                              THEN Failed(d3, "lz4")
                              ELSE LET d4 == pop_block_from_buffer(d3)
                                   IN  IF ~HeaderTypeOk(d4.block) THEN Failed(d4, "meta")
                                       ELSE /\ des' = d4
                                            /\ pc' = "des_meta"
                                            /\ heap' = live
                                            /\ UNCHANGED success
                         ELSE IF ~HeaderTypeOk(d2.block) THEN Failed(d2, "lz4")
                              ELSE /\ des' = d2
                                   /\ pc' = "des_meta"
                                   /\ heap' = live
                                   /\ UNCHANGED success
       ELSE IF ~HeaderTypeOk(des.block) THEN Failed(des, "meta")
            ELSE /\ pc' = "des_meta"
                 /\ UNCHANGED << des, success, heap >>
    /\ UNCHANGED << tiff, buffer, ser, input, file, fp, lz4, done_blocks >>

\* the k-th scalar (k = 0, 1, ...) of a fixed record
Field(record, k) == U(Slice(record, k * FieldBytes, FieldBytes))

\* tiff.c:794-817
TiffFromHeader(h) ==
    [ ZeroTiff EXCEPT
      !.filesize = Field(h, 0), !.bytesize_of_offsets = Field(h, 7),
      !.ifd_count = Field(h, 1), !.main_image_index = Field(h, 2),
      !.macro_image_index = Field(h, 3), !.label_image_index = Field(h, 4),
      !.level_count = Field(h, 5), !.level_image_index = 0,
      !.is_bigtiff = Field(h, 8), !.is_big_endian = Field(h, 9),
      !.mpp_x = Field(h, 10), !.mpp_y = Field(h, 11) ]

\* tiff.c:792-817
DesMeta ==
    /\ pc = "des_meta"
    /\ IF ~CanPop(des, SizeofSerialHeader)
       THEN Failed(des, "meta") /\ UNCHANGED tiff
       ELSE LET d1 == pop_from_buffer(des, SizeofSerialHeader)
            IN  /\ des' = d1
                /\ tiff' = [tiff EXCEPT ![2] = TiffFromHeader(PoppedData(d1, SizeofSerialHeader))]
                /\ pc' = "des_ifds"
                /\ UNCHANGED << success, heap >>
    /\ UNCHANGED << buffer, ser, input, file, fp, lz4, done_blocks >>

\* tiff.c:832-862
IfdFromSerial(i, r) ==
    [ ZeroIfd(i) EXCEPT
      !.image_width = Field(r, 0), !.image_height = Field(r, 1),
      !.tile_width = Field(r, 2), !.tile_height = Field(r, 3),
      !.tile_count = Field(r, 4),
      !.image_description_length = Field(r, 5), !.jpeg_tables_length = Field(r, 6),
      !.compression = Field(r, 7), !.color_space = Field(r, 8),
      !.subimage_type = Field(r, 18), !.level_magnification = Field(r, 9),
      !.width_in_tiles = Field(r, 10), !.height_in_tiles = Field(r, 11),
      !.um_per_pixel_x = Field(r, 12), !.um_per_pixel_y = Field(r, 13),
      !.x_tile_side_in_um = Field(r, 14), !.y_tile_side_in_um = Field(r, 15),
      !.chroma_subsampling_horizontal = Field(r, 16),
      !.chroma_subsampling_vertical = Field(r, 17) ]

IfdsBlockOk_anylength(block, ifd_count) ==
    ~(block.block_type # SERIAL_BLOCK_TIFF_IFDS)

\* tiff.c:821-823
IfdsBlockOk(block, ifd_count) ==
    /\ ~(block.block_type # SERIAL_BLOCK_TIFF_IFDS)
    /\ ~(block.length # ifd_count * SizeofSerialIfd)

\* tiff.c:820-862
DesIfds ==
    /\ pc = "des_ifds"
    /\ IF ~CanPop(des, SizeofSerialBlock)
       THEN Failed(des, "ifds") /\ UNCHANGED tiff
       ELSE LET d1 == pop_block_from_buffer(des)
                serial_ifds_block_size == tiff[2].ifd_count * SizeofSerialIfd
            IN  IF ~IfdsBlockOk(d1.block, tiff[2].ifd_count)
                THEN Failed(d1, "ifds") /\ UNCHANGED tiff
                ELSE IF ~CanPop(d1, serial_ifds_block_size)
                THEN Failed(d1, "ifds") /\ UNCHANGED tiff
                ELSE LET d2 == pop_from_buffer(d1, serial_ifds_block_size)
                         serial_ifds == PoppedData(d2, serial_ifds_block_size)
                     IN  /\ des' = d2
                         /\ tiff' = [ tiff EXCEPT ![2].ifds =
                                [ k \in 1..tiff[2].ifd_count |->
                                    IfdFromSerial(k - 1, Slice(serial_ifds,
                                        (k - 1) * SizeofSerialIfd, SizeofSerialIfd)) ] ]
                         /\ pc' = "des_loop"
                         /\ UNCHANGED << success, heap >>
    /\ UNCHANGED << buffer, ser, input, file, fp, lz4, done_blocks >>

FailedKeep(d, where) == Failed(d, where) /\ UNCHANGED << tiff, done_blocks >>

\* the call does not return: a fault
Crashed(d, where) ==
    /\ pc' = "crashed"
    /\ des' = [d EXCEPT !.at = where]
    /\ UNCHANGED << tiff, success, heap, done_blocks >>

\* the loop goes on (or leaves for nextpc) with IFD index i replaced by ifd
Continue(d, i, ifd, nextpc, accepted) ==
    /\ des' = d
    /\ tiff' = [tiff EXCEPT ![2].ifds[i + 1] = ifd]
    /\ pc' = nextpc
    /\ done_blocks' = done_blocks \cup accepted
    /\ UNCHANGED << success, heap >>

IndexOutOfRange_offbyone(block, ifd_count) == block.index > ifd_count

\* tiff.c:877
IndexOutOfRange(block, ifd_count) == block.index >= ifd_count

\* tiff.c:886, 896, 904, 912: the duplicate-block guard tests the pointer
AlreadyPopulated(p) == ~p.null

\* an allocation of size bytes written from offset 0 up to (not including)
\* write_end: the model keeps what lies inside the allocation
Written(d, size, write_end) == [d EXCEPT !.write_alloc = size, !.write_end = write_end]

\* what a write one byte past an allocation does: it lands in the slack of
\* the allocator, or corrupts the heap and the process faults
OverflowOutcomes == {"slack", "fault"}

\* one pass of the block loop, tiff.c:869-928
DesBlock ==
    /\ pc = "des_loop"
    /\ IF ~CanPop(des, SizeofSerialBlock) THEN FailedKeep(des, "loop")
       ELSE
       LET d1 == pop_block_from_buffer(des)
           block == d1.block
       IN
       IF block.length > 0 /\ ~CanPop(d1, block.length) THEN FailedKeep(d1, "loop")
       ELSE
       LET d2 == IF block.length > 0 THEN pop_from_buffer(d1, block.length) ELSE d1
           block_content == PoppedData(d2, block.length)
           i == block.index
           this == [block_type |-> block.block_type, index |-> i]
       IN
       IF IndexOutOfRange(block, tiff[2].ifd_count) THEN FailedKeep(d2, "index")
       ELSE IF i + 1 \notin DOMAIN tiff[2].ifds THEN Crashed(d2, "ifds")
       ELSE
       LET ifd == tiff[2].ifds[i + 1] IN
       CASE block.block_type = SERIAL_BLOCK_TIFF_IMAGE_DESCRIPTION ->
              IF AlreadyPopulated(ifd.image_description) THEN FailedKeep(d2, "duplicate")
              ELSE \E p \in Malloc(block.length + 1) :
                   Continue(Written(d2, p.size, block.length + 1), i,
                       [ ifd EXCEPT
                         !.image_description = Mem(block_content \o << 0 >>, p.size),
                         !.image_description_length = block.length ],
                       "des_loop", {this})
         [] block.block_type = SERIAL_BLOCK_TIFF_TILE_OFFSETS ->
              IF AlreadyPopulated(ifd.tile_offsets) THEN FailedKeep(d2, "duplicate")
              ELSE \E p \in Malloc(block.length) :
                   Continue(Written(d2, p.size, block.length), i,
                       [ ifd EXCEPT !.tile_offsets =
                             IF p.null THEN NULL ELSE Mem(block_content, p.size) ],
                       "des_loop", {this})
         [] block.block_type = SERIAL_BLOCK_TIFF_TILE_BYTE_COUNTS ->
              IF AlreadyPopulated(ifd.tile_byte_counts) THEN FailedKeep(d2, "duplicate")
              ELSE \E p \in Malloc(block.length) :
                   Continue(Written(d2, p.size, block.length), i,
                       [ ifd EXCEPT !.tile_byte_counts =
                             IF p.null THEN NULL ELSE Mem(block_content, p.size) ],
                       "des_loop", {this})
         [] block.block_type = SERIAL_BLOCK_TIFF_JPEG_TABLES ->
              IF AlreadyPopulated(ifd.jpeg_tables) THEN FailedKeep(d2, "duplicate")
              ELSE \E p \in Malloc(block.length), outcome \in OverflowOutcomes :
                   \* jpeg_tables[block->length] = 0 writes one byte past the
                   \* malloc(block->length) bytes, through NULL when p is NULL
                   IF p.null \/ outcome = "fault"
                   THEN Crashed(Written(d2, p.size, block.length + 1), "jpeg_tables")
                   ELSE Continue(Written(d2, p.size, block.length + 1), i,
                            [ ifd EXCEPT !.jpeg_tables = Mem(block_content, p.size),
                                         !.jpeg_tables_length = block.length ],
                            "des_loop", {this})
         [] block.block_type = SERIAL_BLOCK_TERMINATOR ->
              Continue(d2, i, ifd, "des_end", {})
         [] OTHER ->
              Continue(d2, i, ifd, "des_loop", {})
    /\ UNCHANGED << buffer, ser, input, file, fp, lz4 >>

\* tiff.c:929-944
DesEnd ==
    /\ pc = "des_end"
    /\ success' = TRUE
    /\ heap' = heap \ {"decompressed_buffer"}
    /\ des' = [des EXCEPT !.at = "end"]
    /\ pc' = "returned"
    /\ UNCHANGED << tiff, buffer, ser, input, file, fp, lz4, done_blocks >>

(***************************************************************************)
(* The streams handed to tiff_deserialize besides those tiff_serialize     *)
(* built: a well-formed stream with one thing changed.                     *)
(***************************************************************************)
UnknownBlockType == SERIAL_BLOCK_TIFF_JPEG_TABLES + 1

SBlock(ty, i, len, payload) ==
    [block_type |-> ty, index |-> i, length |-> len, payload |-> payload]

IfdBlocks(ifd, i) ==
    << SBlock(SERIAL_BLOCK_TIFF_IMAGE_DESCRIPTION, i, ifd.image_description_length,
              PtrRead(ifd.image_description, ifd.image_description_length)),
       SBlock(SERIAL_BLOCK_TIFF_TILE_OFFSETS, i, ifd.tile_count * 8,
              PtrRead(ifd.tile_offsets, ifd.tile_count * 8)),
       SBlock(SERIAL_BLOCK_TIFF_TILE_BYTE_COUNTS, i, ifd.tile_count * 8,
              PtrRead(ifd.tile_byte_counts, ifd.tile_count * 8)),
       SBlock(SERIAL_BLOCK_TIFF_JPEG_TABLES, i, ifd.jpeg_tables_length,
              PtrRead(ifd.jpeg_tables, ifd.jpeg_tables_length)) >>

BlocksOf(t) ==
    << SBlock(SERIAL_BLOCK_TIFF_HEADER_AND_META, 0, SizeofSerialBlock, SerialHeaderBytes(t)),
       SBlock(SERIAL_BLOCK_TIFF_IFDS, 0, t.ifd_count * SizeofSerialIfd, SerialIfdsBytes(t)) >>
    \o Concat([k \in 1..t.ifd_count |-> IfdBlocks(t.ifds[k], k - 1)])
    \o << SBlock(SERIAL_BLOCK_TERMINATOR, 0, 0, <<>>) >>

Flatten(blocks) ==
    Concat([k \in 1..Len(blocks) |->
        BlockBytes(blocks[k].block_type, blocks[k].index, blocks[k].length)
        \o blocks[k].payload])

BaseImages ==
    { MkImage([k \in 1..n |-> s]) : n \in 0..MaxIfds, s \in {FullShape, EmptyShape} }

InjectedBlocks(n) ==
    { SBlock(ty, i, len, [k \in 1..len |-> 33]) :
        ty \in PayloadTypes \cup {SERIAL_BLOCK_TERMINATOR, UnknownBlockType},
        i \in 0..n, len \in 0..MaxLen }

Inject(blocks, k, b) == SubSeq(blocks, 1, k - 1) \o << b >> \o SubSeq(blocks, k, Len(blocks))

Drop(blocks, k) == SubSeq(blocks, 1, k - 1) \o SubSeq(blocks, k + 1, Len(blocks))

\* block b with one u64 more, or one less, than it has
Resized(b) ==
    { SBlock(b.block_type, b.index, b.length + 8, b.payload \o Zeros(8)) }
    \cup (IF b.length >= 8
          THEN { SBlock(b.block_type, b.index, b.length - 8,
                        SubSeq(b.payload, 1, b.length - 8)) }
          ELSE {})

\* the block lists made from the stream of t: itself; one block injected
\* before block k of the loop; only the first k blocks; another type for the
\* first or the second block; another length for the IFDS block; one
\* payload block left out; a TILE_OFFSETS or TILE_BYTE_COUNTS block of
\* another length
ChangedBlocks(t) ==
    LET blocks == BlocksOf(t) IN
    {blocks}
    \cup { Drop(blocks, k) : k \in 3..(Len(blocks) - 1) }
    \cup UNION { { [blocks EXCEPT ![k] = b] : b \in Resized(blocks[k]) } :
                 k \in { j \in 3..(Len(blocks) - 1) :
                           blocks[j].block_type \in { SERIAL_BLOCK_TIFF_TILE_OFFSETS,
                                                      SERIAL_BLOCK_TIFF_TILE_BYTE_COUNTS } } }
    \cup { Inject(blocks, k, b) : k \in 3..Len(blocks), b \in InjectedBlocks(t.ifd_count) }
    \cup { SubSeq(blocks, 1, k) : k \in 0..(Len(blocks) - 1) }
    \cup { [blocks EXCEPT ![j].block_type = ty] : j \in 1..2,
             ty \in { SERIAL_BLOCK_TIFF_HEADER_AND_META, SERIAL_BLOCK_TIFF_IFDS,
                      SERIAL_BLOCK_TIFF_IMAGE_DESCRIPTION, SERIAL_BLOCK_TERMINATOR,
                      UnknownBlockType } }
    \cup { [blocks EXCEPT ![2].length = len] :
             len \in {blocks[2].length + 1} \cup
                     (IF blocks[2].length > 0 THEN {blocks[2].length - 1} ELSE {}) }

CutBlocks(t) ==
    LET blocks == BlocksOf(t) IN { SubSeq(blocks, 1, k) : k \in 0..Len(blocks) }

WrapKinds == {"good", "corrupt", "size_plus", "size_minus", "cut"}

\* the stream inside one LZ4_COMPRESSED_DATA block
Wrapped(stream, kind) ==
    LET comp == CompressedBytes(Len(stream) \div 2)
        payload == CASE kind = "corrupt" -> [k \in 1..Len(comp) |-> 77]
                     [] kind = "cut" -> SubSeq(comp, 1, Len(comp) - 1)
                     [] OTHER -> comp
        size == CASE kind = "size_plus" -> Len(stream) + 1
                  [] kind = "size_minus" -> Max(0, Len(stream) - 1)
                  [] OTHER -> Len(stream)
    IN  BlockBytes(SERIAL_BLOCK_LZ4_COMPRESSED_DATA, size, Len(comp)) \o payload

EnvelopeKinds == {"none", "trailing", "double", "short"}

Enveloped(stream, kind) ==
    CASE kind = "normal" -> http_headers(Len(stream)) \o stream
      [] kind = "none" -> stream
      [] kind = "trailing" -> stream \o CRLFCRLF
      [] kind = "double" -> http_headers(Len(stream)) \o http_headers(Len(stream)) \o stream
      [] OTHER -> << 13, 10 >>

\* [input, lz4] of every stream of the model
Scenarios ==
    UNION { { [input |-> Enveloped(Flatten(blocks), "normal"), lz4 |-> NoLz4] :
                blocks \in ChangedBlocks(t) }
            \cup { [input |-> Enveloped(Wrapped(Flatten(blocks), kind), "normal"),
                    lz4 |-> [ comp |-> CompressedBytes(Len(Flatten(blocks)) \div 2),
                              plain |-> Flatten(blocks) ]] :
                     blocks \in CutBlocks(t), kind \in WrapKinds }
            \cup { [input |-> Enveloped(Flatten(BlocksOf(t)), kind), lz4 |-> NoLz4] :
                     kind \in EnvelopeKinds }
          : t \in BaseImages }

\* the caller hands the serialized buffer to tiff_deserialize
Send ==
    /\ pc = "serialized"
    /\ input' = buffer.http \o buffer.data
    /\ pc' = "des_begin"
    /\ UNCHANGED << tiff, buffer, ser, des, success, heap, lz4, done_blocks, file, fp >>

InitSer ==
    /\ pc = "ser_begin"
    /\ \E x \in Images : tiff = [k \in 1..2 |-> IF k = 1 THEN x ELSE ZeroTiff]
    /\ input = <<>>
    /\ lz4 = NoLz4

InitDes ==
    /\ pc = "des_begin"
    /\ tiff = [k \in 1..2 |-> ZeroTiff]
    /\ \E sc \in Scenarios : input = sc.input /\ lz4 = sc.lz4

Init ==
    /\ InitSer \/ InitDes
    /\ buffer = NoBuffer
    /\ ser = NoSer
    /\ des = NoDes
    /\ success = FALSE
    /\ heap = {}
    /\ done_blocks = {}
    /\ file = NoFiles
    /\ fp = NoFp

Next ==
    \/ SerBegin \/ SerMeta \/ SerIfd \/ SerTerminator \/ SerCompress
    \/ Send
    \/ DesBegin \/ DesLz4 \/ DesMeta \/ DesIfds \/ DesBlock \/ DesEnd

Spec == Init /\ [][Next]_vars

(***************************************************************************)
(* The TIFF reader: open_tiff_file and tiff_read_ifd (tiff.c:35-546).      *)
(* tiff.h is not among the sources: the data types and tag codes are the   *)
(* ones of the TIFF 6.0 / BigTIFF format the names stand for.              *)
(***************************************************************************)
TIFF_UINT8 == 1
TIFF_ASCII == 2
TIFF_UINT16 == 3
TIFF_UINT32 == 4
TIFF_RATIONAL == 5
TIFF_INT8 == 6
TIFF_UNDEFINED == 7
TIFF_INT16 == 8
TIFF_INT32 == 9
TIFF_SRATIONAL == 10
TIFF_FLOAT == 11
TIFF_DOUBLE == 12
TIFF_IFD == 13
TIFF_UINT64 == 16
TIFF_INT64 == 17
TIFF_IFD8 == 18

TIFF_TAG_NEW_SUBFILE_TYPE == 254
TIFF_TAG_IMAGE_WIDTH == 256
TIFF_TAG_IMAGE_LENGTH == 257
TIFF_TAG_COMPRESSION == 259
TIFF_TAG_PHOTOMETRIC_INTERPRETATION == 262
TIFF_TAG_IMAGE_DESCRIPTION == 270
TIFF_TAG_TILE_WIDTH == 322
TIFF_TAG_TILE_LENGTH == 323
TIFF_TAG_TILE_OFFSETS == 324
TIFF_TAG_TILE_BYTE_COUNTS == 325
TIFF_TAG_JPEG_TABLES == 347
TIFF_TAG_YCBCRSUBSAMPLING == 530
TIFF_TAG_REFERENCEBLACKWHITE == 532

\* "MM" and "II" read as a u16
TIFF_BIG_ENDIAN == 19789
TIFF_LITTLE_ENDIAN == 18761
TIFF_PHOTOMETRIC_RGB == 2
TIFF_FILETYPE_REDUCEDIMAGE == 1

\* tiff.c:35-48
get_tiff_field_size(data_type) ==
    CASE data_type \in {TIFF_UINT8, TIFF_INT8, TIFF_ASCII, TIFF_UNDEFINED} -> 1
      [] data_type \in {TIFF_UINT16, TIFF_INT16} -> 2
      [] data_type \in {TIFF_UINT32, TIFF_INT32, TIFF_IFD, TIFF_FLOAT} -> 4
      [] data_type \in {TIFF_RATIONAL, TIFF_SRATIONAL} -> 8
      [] data_type \in {TIFF_DOUBLE, TIFF_UINT64, TIFF_INT64, TIFF_IFD8} -> 8
      [] OTHER -> 0

\* bswap_16 / bswap_32 / bswap_64 on the bytes of the value
bswap(b) == [i \in 1..Len(b) |-> b[Len(b) + 1 - i]]

\* maybe_swap_16 / maybe_swap_32 / maybe_swap_64
maybe_swap(b, is_big_endian) == IF is_big_endian THEN bswap(b) ELSE b

\* tiff.c:50-67 on the 8-byte data slot of a tag: the slot afterwards, and
\* whether bytes behind the slot were swapped too.  The loop runs sub_count
\* times over field_size bytes: once over the first element; for a RATIONAL
\* twice over 8 bytes, the second time over the 8 bytes behind the slot.
maybe_swap_tiff_field(field, data_type, is_big_endian) ==
    LET field_size == get_tiff_field_size(data_type)
        sub_count == IF data_type \in {TIFF_RATIONAL, TIFF_SRATIONAL} THEN 2 ELSE 1
    IN  IF is_big_endian /\ field_size > 1
        THEN [ data |-> bswap(SubSeq(field, 1, field_size))
                        \o SubSeq(field, field_size + 1, Len(field)),
               behind_slot |-> sub_count = 2 ]
        ELSE [ data |-> field, behind_slot |-> FALSE ]

\* tiff.c:239-279: one tiff_tag_t from its raw 12 or 20 bytes.  data is the
\* 8-byte union of data, data_u16, data_u32, data_u64 and offset (zeroed by
\* calloc before it is filled)
DecodeTag(raw, is_bigtiff, is_big_endian) ==
    LET w == IF is_bigtiff THEN 8 ELSE 4
        code == U(maybe_swap(Slice(raw, 0, 2), is_big_endian))
        data_type == U(maybe_swap(Slice(raw, 2, 2), is_big_endian))
        data_count == U(maybe_swap(Slice(raw, 4, w), is_big_endian))
        field_size == get_tiff_field_size(data_type)
        data_size == field_size * data_count
        raw_data == Slice(raw, 4 + w, w)
        swapped == maybe_swap_tiff_field(raw_data \o Zeros(8 - w), data_type, is_big_endian)
    IN  IF data_size <= w
        THEN [ code |-> code, data_type |-> data_type, data_count |-> data_count,
               data |-> swapped.data, data_is_offset |-> FALSE,
               behind_slot |-> swapped.behind_slot ]
        ELSE [ code |-> code, data_type |-> data_type, data_count |-> data_count,
               data |-> maybe_swap(raw_data, is_big_endian) \o Zeros(8 - w),
               data_is_offset |-> TRUE, behind_slot |-> FALSE ]

data_u16(tag) == U(SubSeq(tag.data, 1, 2))
data_u32(tag) == U(SubSeq(tag.data, 1, 4))

\* fread(dest, n, 1, fp) at position pos of the file f returns 1
CanRead(f, pos, n) == n > 0 /\ pos + n <= Len(f)

\* the bytes fread stores: the n bytes at pos, fewer at the end of the file
ReadBytes(f, pos, n) ==
    IF pos >= Len(f) THEN <<>> ELSE Slice(f, pos, Min(n, Len(f) - pos))

\* fseeko64(fp, offset, SEEK_SET) fails for an offset that is negative as
\* an off64_t, and then leaves the position where it is
SeekFails(offset) == offset[8] >= 128

\* tiff.c:98-110, with the file position at cur: [ok, bytes]
file_read_at_offset(f, cur, offset, num_bytes) ==
    LET pos == IF SeekFails(offset) THEN cur ELSE U(offset)
    IN  [ ok |-> CanRead(f, pos, num_bytes), bytes |-> ReadBytes(f, pos, num_bytes) ]

\* tiff.c:112-121.  An inline tag whose data_count exceeds its 8-byte slot
\* (a data type of size 0) makes memcpy read behind the slot: the bytes it
\* finds there are taken to be zero and the read is reported by TagFaults.
tiff_read_field_ascii(f, cur, tag) ==
    LET description_length == tag.data_count
        size == Max(8, description_length + 1)
    IN  IF tag.data_is_offset
        THEN Mem(file_read_at_offset(f, cur, tag.data, tag.data_count).bytes, size)
        ELSE Mem(SubSeq(tag.data, 1, Min(description_length, 8)), size)

\* tiff.c:128-183: the u64 array, or NULL
tiff_read_field_integers(f, cur, tag, is_big_endian) ==
    IF tag.data_is_offset
    THEN LET bytesize == get_tiff_field_size(tag.data_type)
             r == file_read_at_offset(f, cur, tag.data, tag.data_count * bytesize)
         IN  IF ~r.ok THEN NULL
             ELSE Mem(Concat([i \in 1..tag.data_count |->
                         maybe_swap(Slice(r.bytes, (i - 1) * bytesize, bytesize),
                                    is_big_endian) \o Zeros(8 - bytesize)]),
                      8 * tag.data_count)
    ELSE Mem(tag.data, 8)

\* tiff.c:186-206 for a tag at an offset: data_count pairs of u32.  (For an
\* inline tag line 194 reads through the tag's value as if it were an
\* address: reported by TagFaults, the array is then taken to hold zeros.)
tiff_read_field_rationals(f, cur, tag, is_big_endian) ==
    LET size == Max(8, tag.data_count * 8)
        read == IF tag.data_is_offset
                THEN file_read_at_offset(f, cur, tag.data, tag.data_count * 8).bytes
                ELSE <<>>
        held == read \o Zeros(size - Len(read))
    IN  Mem(Concat([i \in 1..(2 * tag.data_count) |->
                maybe_swap(Slice(held, 4 * (i - 1), 4), is_big_endian)]), size)

\* the tags whose decoding or reading has undefined behaviour
TagFaults(tag) ==
    \/ tag.behind_slot
    \/ /\ ~tag.data_is_offset
       /\ \/ tag.code = TIFF_TAG_REFERENCEBLACKWHITE
          \/ /\ tag.code \in {TIFF_TAG_IMAGE_DESCRIPTION, TIFF_TAG_JPEG_TABLES}
             /\ tag.data_count > 8

\* a guard that lets a TileByteCounts with fewer values through
TileCountMismatch_more(tag, ifd) == tag.data_count > ifd.tile_count

\* tiff.c:343: the count of TileByteCounts is not the tile_count that the
\* IFD has at this point
TileCountMismatch(tag, ifd) == tag.data_count # ifd.tile_count

\* tiff.c:289-384: what one tag does to the IFD being read; ok is FALSE
\* where the code returns false.  (The ASSERT of line 344 is taken to be
\* compiled out.)
ReadTag(f, cur, is_big_endian, r, tag) ==
    LET ifd == r.ifd IN
    CASE tag.code = TIFF_TAG_NEW_SUBFILE_TYPE ->
           [r EXCEPT !.ifd.tiff_subfiletype = data_u32(tag)]
      [] tag.code = TIFF_TAG_IMAGE_WIDTH ->
           [r EXCEPT !.ifd.image_width = data_u32(tag)]
      [] tag.code = TIFF_TAG_IMAGE_LENGTH ->
           [r EXCEPT !.ifd.image_height = data_u32(tag)]
      [] tag.code = TIFF_TAG_COMPRESSION ->
           [r EXCEPT !.ifd.compression = data_u16(tag)]
      [] tag.code = TIFF_TAG_PHOTOMETRIC_INTERPRETATION ->
           [r EXCEPT !.ifd.color_space = data_u16(tag)]
      [] tag.code = TIFF_TAG_IMAGE_DESCRIPTION ->
           [r EXCEPT !.ifd.image_description = tiff_read_field_ascii(f, cur, tag),
                     !.ifd.image_description_length = tag.data_count]
      [] tag.code = TIFF_TAG_TILE_WIDTH ->
           [r EXCEPT !.ifd.tile_width = data_u32(tag)]
      [] tag.code = TIFF_TAG_TILE_LENGTH ->
           [r EXCEPT !.ifd.tile_height = data_u32(tag)]
      [] tag.code = TIFF_TAG_TILE_OFFSETS ->
           LET p == tiff_read_field_integers(f, cur, tag, is_big_endian)
           IN  [ ifd |-> [ifd EXCEPT !.tile_count = tag.data_count, !.tile_offsets = p],
                 ok |-> ~p.null ]
      [] tag.code = TIFF_TAG_TILE_BYTE_COUNTS ->
           IF TileCountMismatch(tag, ifd)
           THEN [r EXCEPT !.ok = FALSE]
           ELSE LET p == tiff_read_field_integers(f, cur, tag, is_big_endian)
                IN  [ ifd |-> [ifd EXCEPT !.tile_byte_counts = p], ok |-> ~p.null ]
      [] tag.code = TIFF_TAG_JPEG_TABLES ->
           [r EXCEPT !.ifd.jpeg_tables = tiff_read_field_ascii(f, cur, tag),
                     !.ifd.jpeg_tables_length = tag.data_count]
      [] tag.code = TIFF_TAG_YCBCRSUBSAMPLING ->
           [r EXCEPT !.ifd.chroma_subsampling_horizontal = U(Slice(tag.data, 0, 2)),
                     !.ifd.chroma_subsampling_vertical = U(Slice(tag.data, 2, 2))]
      [] tag.code = TIFF_TAG_REFERENCEBLACKWHITE ->
           [r EXCEPT !.ifd.reference_black_white_rational_count = tag.data_count,
                     !.ifd.reference_black_white =
                         tiff_read_field_rationals(f, cur, tag, is_big_endian)]
      [] OTHER -> r

\* the loop of tiff.c:283-387, left at the first tag that fails
RECURSIVE ReadTags(_, _, _, _, _)
ReadTags(f, cur, is_big_endian, r, tags) ==
    IF tags = <<>> \/ ~r.ok THEN r
    ELSE ReadTags(f, cur, is_big_endian,
                  ReadTag(f, cur, is_big_endian, r, Head(tags)), Tail(tags))

\* tiff.c:391-396
DerivedGeometry(ifd) ==
    [ ifd EXCEPT
      !.width_in_tiles =
          IF ifd.tile_width > 0
          THEN (ifd.image_width + ifd.tile_width - 1) \div ifd.tile_width ELSE @,
      !.height_in_tiles =
          IF ifd.tile_height > 0
          THEN (ifd.image_height + ifd.tile_height - 1) \div ifd.tile_height ELSE @ ]

\* strncmp(ifd->image_description, word, 5) == 0, word of 5 characters
StartsWith(p, word) == SubSeq(p.bytes, 1, 5) = word

Macro == << 77, 97, 99, 114, 111 >>
Label == << 76, 97, 98, 101, 108 >>
level == << 108, 101, 118, 101, 108 >>

\* tiff.c:398-418: [ifd, tiff]
Classify(t, ifd) ==
    LET named ==
          IF ifd.image_description.null THEN [ifd |-> ifd, tiff |-> t]
          ELSE IF StartsWith(ifd.image_description, Macro)
          THEN [ ifd |-> [ifd EXCEPT !.subimage_type = TIFF_MACRO_SUBIMAGE],
                 tiff |-> [t EXCEPT !.macro_image_index = ifd.ifd_index] ]
          ELSE IF StartsWith(ifd.image_description, Label)
          THEN [ ifd |-> [ifd EXCEPT !.subimage_type = TIFF_LABEL_SUBIMAGE],
                 tiff |-> [t EXCEPT !.label_image_index = ifd.ifd_index] ]
          ELSE IF StartsWith(ifd.image_description, level)
          THEN [ ifd |-> [ifd EXCEPT !.subimage_type = TIFF_LEVEL_SUBIMAGE], tiff |-> t ]
          ELSE [ifd |-> ifd, tiff |-> t]
        guessed ==
          /\ named.ifd.subimage_type = TIFF_UNKNOWN_SUBIMAGE
          /\ named.ifd.tile_width > 0
          /\ \/ named.ifd.ifd_index = 0
             \/ (named.ifd.tiff_subfiletype \div TIFF_FILETYPE_REDUCEDIMAGE) % 2 = 1
    IN  IF guessed THEN [named EXCEPT !.ifd.subimage_type = TIFF_LEVEL_SUBIMAGE]
        ELSE named

\* tiff.c:208-428 on the file f: [ok, ifd, tiff, next_ifd_offset, fault].
\* next_ifd_offset is the caller's u64, as 8 bytes; line 423 freads
\* bytesize_of_offsets bytes of the file into its low bytes, as they are.
tiff_read_ifd(t, f, ifd_in, next_ifd_offset) ==
    LET is_bigtiff == t.is_bigtiff = 1
        is_big_endian == t.is_big_endian = 1
        ifd0 == [ifd_in EXCEPT !.color_space = TIFF_PHOTOMETRIC_RGB]
        failed(ifd, tf, fault) ==
            [ ok |-> FALSE, ifd |-> ifd, tiff |-> tf,
              next_ifd_offset |-> next_ifd_offset, fault |-> fault ]
        pos0 == U(next_ifd_offset)
        tag_count_num_bytes == IF is_bigtiff THEN 8 ELSE 2
        tag_count == U(maybe_swap(Slice(f, pos0, tag_count_num_bytes), is_big_endian))
        tag_size == IF is_bigtiff THEN 20 ELSE 12
        bytes_to_read == tag_count * tag_size
        pos1 == pos0 + tag_count_num_bytes
        pos2 == pos1 + bytes_to_read
    IN  IF SeekFails(next_ifd_offset) THEN failed(ifd0, t, FALSE)
        ELSE IF ~CanRead(f, pos0, tag_count_num_bytes) THEN failed(ifd0, t, FALSE)
        ELSE IF ~CanRead(f, pos1, bytes_to_read) THEN failed(ifd0, t, FALSE)
        ELSE
          LET tags == [i \in 1..tag_count |->
                         DecodeTag(Slice(f, pos1 + (i - 1) * tag_size, tag_size),
                                   is_bigtiff, is_big_endian)]
              fault == \E i \in 1..tag_count : TagFaults(tags[i])
              r == ReadTags(f, pos2, is_big_endian, [ifd |-> ifd0, ok |-> TRUE], tags)
              c == Classify(t, DerivedGeometry(r.ifd))
          IN  IF ~r.ok THEN failed(r.ifd, t, fault)
              ELSE IF ~CanRead(f, pos2, t.bytesize_of_offsets)
              THEN failed(c.ifd, c.tiff, fault)
              ELSE [ ok |-> TRUE, ifd |-> c.ifd, tiff |-> c.tiff,
                     next_ifd_offset |->
                         Slice(f, pos2, t.bytesize_of_offsets)
                         \o SubSeq(next_ifd_offset, t.bytesize_of_offsets + 1, 8),
                     fault |-> fault ]

\* goto fail (tiff.c:524-545): open_tiff_file returns false
OpenFail(t) ==
    /\ tiff' = [tiff EXCEPT ![fp.k] = t]
    /\ fp' = [fp EXCEPT !.result[fp.k] = FALSE]
    /\ success' = FALSE
    /\ pc' = "opened"

\* tiff.c:435-473: the header
OpenBegin ==
    /\ pc = "open_begin"
    /\ LET f == file[fp.k]
           t == tiff[fp.k]
           byte_order_indication == U(Slice(f, 0, 2))
           is_big_endian == byte_order_indication = TIFF_BIG_ENDIAN
           t1 == [t EXCEPT !.is_big_endian = IF is_big_endian THEN 1 ELSE 0]
           filetype == U(maybe_swap(Slice(f, 2, 2), is_big_endian))
           is_bigtiff == filetype = 43
           t2 == [t1 EXCEPT !.is_bigtiff = IF is_bigtiff THEN 1 ELSE 0]
           offset_size == U(maybe_swap(Slice(f, 4, 2), is_big_endian))
           always_zero == U(Slice(f, 6, 2))
           next_ifd_offset ==
               IF is_bigtiff THEN maybe_swap(Slice(f, 8, 8), is_big_endian)
               ELSE maybe_swap(Slice(f, 4, 4), is_big_endian) \o Zeros(4)
       IN  IF Len(f) <= 8 \/ ~CanRead(f, 0, 16) THEN OpenFail(t)
           ELSE IF byte_order_indication \notin {TIFF_BIG_ENDIAN, TIFF_LITTLE_ENDIAN}
           THEN OpenFail(t)
           ELSE IF filetype \notin {42, 43} THEN OpenFail(t1)
           ELSE IF is_bigtiff /\ (offset_size # 8 \/ always_zero # 0) THEN OpenFail(t2)
           ELSE /\ tiff' = [tiff EXCEPT ![fp.k] =
                      [t2 EXCEPT !.bytesize_of_offsets = IF is_bigtiff THEN 8 ELSE 4]]
                /\ fp' = [fp EXCEPT !.next_ifd_offset = next_ifd_offset]
                /\ pc' = "open_ifds"
                /\ UNCHANGED success
    /\ UNCHANGED << buffer, ser, input, des, heap, lz4, done_blocks, file >>

\* the buffers that the fields of an IFD point to
IfdBuffers(ifd) ==
    {name \in {"tile_offsets", "tile_byte_counts", "image_description",
               "jpeg_tables", "reference_black_white"} :
        CASE name = "tile_offsets" -> ~ifd.tile_offsets.null
          [] name = "tile_byte_counts" -> ~ifd.tile_byte_counts.null
          [] name = "image_description" -> ~ifd.image_description.null
          [] name = "jpeg_tables" -> ~ifd.jpeg_tables.null
          [] OTHER -> ~ifd.reference_black_white.null}

\* the model keeps the first MaxChain IFDs of an Image; a chain that ends
\* has MaxIfds IFDs at most
MaxChain == MaxIfds + 2

\* tiff.c:476-481: the IFD loop up to the call of tiff_read_ifd.  A tag that
\* makes the code touch memory it does not own either goes unnoticed or ends
\* the process.  The IFD is a local of the loop body (line 480): when
\* tiff_read_ifd fails, tiff.c:337-373 has freed the tags, and the buffers
\* the local IFD points to are owned by nothing.
OpenReadIfd ==
    /\ pc = "open_ifds"
    /\ fp.next_ifd_offset # Zeros(8)
    /\ LET t == tiff[fp.k]
           r == tiff_read_ifd(t, file[fp.k], ZeroIfd(t.ifd_count), fp.next_ifd_offset)
       IN  \E crash \in (IF r.fault THEN {TRUE, FALSE} ELSE {FALSE}) :
             IF crash
             THEN pc' = "crashed" /\ UNCHANGED << tiff, fp, success, heap >>
             ELSE IF ~r.ok
             THEN /\ OpenFail(r.tiff)
                  /\ heap' = heap \cup IfdBuffers(r.ifd)
             ELSE /\ tiff' = [tiff EXCEPT ![fp.k] = r.tiff]
                  /\ fp' = [fp EXCEPT !.next_ifd_offset = r.next_ifd_offset,
                                      !.ifd = r.ifd]
                  /\ pc' = "open_push"
                  /\ UNCHANGED << success, heap >>
    /\ UNCHANGED << buffer, ser, input, des, lz4, done_blocks, file >>

\* tiff.c:482-483: sb_push(tiff->ifds, ifd); tiff->ifd_count += 1, and back
\* to the head of the loop.  The loop has no bound of its own: once the
\* Image has MaxChain IFDs the model leaves out the IFDs that are pushed.
OpenPush ==
    /\ pc = "open_push"
    /\ tiff' = [tiff EXCEPT ![fp.k] =
                  IF @.ifd_count < MaxChain
                  THEN [@ EXCEPT !.ifds = Append(@, fp.ifd), !.ifd_count = @ + 1]
                  ELSE @]
    /\ fp' = [fp EXCEPT !.ifd = ZeroIfd(0)]
    /\ pc' = "open_ifds"
    /\ UNCHANGED << buffer, ser, input, des, success, heap, lz4, done_blocks, file >>

\* 0.25f * 2^i, in units of 0.25 (floats of the model are counted in
\* quarters of a micrometre)
RECURSIVE UmPerPixel(_)
UmPerPixel(i) == IF i = 0 THEN 1 ELSE 2 * UmPerPixel(i - 1)

\* tiff.c:486-518: after the last IFD.  (The ASSERTs of lines 507-508 are
\* taken to be compiled out.)
OpenFinish ==
    /\ pc = "open_ifds"
    /\ fp.next_ifd_offset = Zeros(8)
    /\ LET t == tiff[fp.k]
           level_counter ==
               Cardinality({i \in 1..t.ifd_count :
                               t.ifds[i].subimage_type = TIFF_LEVEL_SUBIMAGE})
           ifds == [i \in 1..t.ifd_count |->
                      IF i <= level_counter
                      THEN [ t.ifds[i] EXCEPT
                             !.um_per_pixel_x = UmPerPixel(i - 1),
                             !.um_per_pixel_y = UmPerPixel(i - 1),
                             !.x_tile_side_in_um = UmPerPixel(i - 1) * t.ifds[i].tile_width,
                             !.y_tile_side_in_um = UmPerPixel(i - 1) * t.ifds[i].tile_height ]
                      ELSE t.ifds[i]]
       IN  tiff' = [tiff EXCEPT ![fp.k] =
                      [ t EXCEPT !.main_image_index = 0, !.level_image_index = 0,
                                 !.level_count = level_counter,
                                 !.mpp_x = 1, !.mpp_y = 1, !.ifds = ifds ]]
    /\ fp' = [fp EXCEPT !.result[fp.k] = TRUE]
    /\ success' = TRUE
    /\ pc' = "opened"
    /\ UNCHANGED << buffer, ser, input, des, heap, lz4, done_blocks, file >>

\* the caller opens the second file into the second tiff_t
OpenNext ==
    /\ pc = "opened"
    /\ fp.k = 1
    /\ fp' = [fp EXCEPT !.k = 2, !.next_ifd_offset = Zeros(8)]
    /\ pc' = "open_begin"
    /\ UNCHANGED << tiff, buffer, ser, input, des, success, heap, lz4, done_blocks, file >>

(***************************************************************************)
(* The TIFF files handed to open_tiff_file: one TIFF, written once         *)
(* little-endian into file[1] and once big-endian into file[2].            *)
(***************************************************************************)
\* the w bytes of the number v in a file of the given byte order
Num(v, w, is_big_endian) == maybe_swap(LE(v, w), is_big_endian)

Tag(code, data_type, values) == [code |-> code, data_type |-> data_type, values |-> values]

\* a RATIONAL is two values of 4 bytes
ValueSize(data_type) ==
    IF data_type \in {TIFF_RATIONAL, TIFF_SRATIONAL} THEN 4
    ELSE get_tiff_field_size(data_type)

\* the data_count of a tag
ValueCount(tag) == (Len(tag.values) * ValueSize(tag.data_type))
                       \div get_tiff_field_size(tag.data_type)

\* the values of a tag as they stand in the file
PayloadBytes(tag, is_big_endian) ==
    Concat([i \in 1..Len(tag.values) |->
        Num(tag.values[i], ValueSize(tag.data_type), is_big_endian)])

\* a 12-byte tag entry (20 bytes in a BigTIFF): a payload that fits the
\* value field stands in it, left-justified, another one at offset
TagBytes(tag, payload, offset, is_bigtiff, is_big_endian) ==
    LET w == IF is_bigtiff THEN 8 ELSE 4 IN
    Num(tag.code, 2, is_big_endian) \o Num(tag.data_type, 2, is_big_endian)
    \o Num(ValueCount(tag), w, is_big_endian)
    \o (IF Len(payload) <= w THEN payload \o Zeros(w - Len(payload))
        ELSE Num(offset, w, is_big_endian))

\* the IFDs from the file offset off on: each IFD is followed by the
\* payloads of its tags that do not fit their value field, then by the next
\* IFD; the last IFD has the next-IFD offset last (0 ends the chain)
RECURSIVE IfdsBytes(_, _, _, _, _)
IfdsBytes(ifds, off, last, is_bigtiff, is_big_endian) ==
    IF ifds = <<>> THEN <<>>
    ELSE
      LET tags == Head(ifds)
          n == Len(tags)
          w == IF is_bigtiff THEN 8 ELSE 4
          payload == [i \in 1..n |-> PayloadBytes(tags[i], is_big_endian)]
          behind == [i \in 1..n |-> IF Len(payload[i]) > w THEN payload[i] ELSE <<>>]
          data_start == off + (IF is_bigtiff THEN 8 ELSE 2)
                            + n * (IF is_bigtiff THEN 20 ELSE 12) + w
          end == data_start + Len(Concat(behind))
      IN  Num(n, IF is_bigtiff THEN 8 ELSE 2, is_big_endian)
          \o Concat([i \in 1..n |->
                TagBytes(tags[i], payload[i],
                         data_start + Len(Concat(SubSeq(behind, 1, i - 1))),
                         is_bigtiff, is_big_endian)])
          \o Num(IF Len(ifds) = 1 THEN last ELSE end, w, is_big_endian)
          \o Concat(behind)
          \o IfdsBytes(Tail(ifds), end, last, is_bigtiff, is_big_endian)

\* the 8-byte header of a TIFF, the 16-byte header of a BigTIFF
HeaderBytes(is_bigtiff, is_big_endian) ==
    (IF is_big_endian THEN LE(TIFF_BIG_ENDIAN, 2) ELSE LE(TIFF_LITTLE_ENDIAN, 2))
    \o (IF is_bigtiff
        THEN Num(43, 2, is_big_endian) \o Num(8, 2, is_big_endian)
             \o Num(0, 2, is_big_endian) \o Num(16, 8, is_big_endian)
        ELSE Num(42, 2, is_big_endian) \o Num(8, 4, is_big_endian))

\* the file of the TIFF d = [is_bigtiff, ifds, cut, loops]: cut bytes are
\* missing at its end; when it loops, the next-IFD offset of its last IFD is
\* the offset of its first IFD
TiffBytes(d, is_big_endian) ==
    LET first == IF d.is_bigtiff THEN 16 ELSE 8
        all == HeaderBytes(d.is_bigtiff, is_big_endian)
               \o IfdsBytes(d.ifds, first, IF d.loops THEN first ELSE 0,
                            d.is_bigtiff, is_big_endian)
    IN  SubSeq(all, 1, Len(all) - d.cut)

\* One IFD of a tiled slide image: tiles 512 x 512 tiles in a row, a
\* description (<<>> for none), JPEG tables of jpeg bytes (0 for none),
\* YCbCrSubSampling and ReferenceBlackWhite (<<>> for none).  The tile arrays
\* are LONG in a TIFF and LONG8 in a BigTIFF.
\* arrays tells which of TileOffsets / TileByteCounts the IFD has and how:
\* "both"; "offsets_only"; "counts_only"; "counts_first" (TileByteCounts
\* before TileOffsets); "counts_short" (TileByteCounts has one value less);
\* "counts_empty_first" (a TileByteCounts of no values before TileOffsets);
\* "shorts" (tiles + 1 values of type SHORT each, which fit the value field).
\* rows is the height of the image in tiles, of which the arrays describe
\* one; an IFD that is not tiled has none of the tile tags.
BaseKind ==
    [ tiles |-> 1, description |-> level, jpeg |-> MaxLen, chroma |-> <<>>,
      reference |-> <<>>, reduced |-> 0, arrays |-> "both", rows |-> 1,
      tiled |-> TRUE ]

ArrayKinds ==
    { "offsets_only", "counts_only", "counts_first", "counts_short",
      "counts_empty_first", "shorts" }

IfdKinds ==
    {[BaseKind EXCEPT !.tiles = n] : n \in 1..(MaxLen + 1)}
    \cup {[BaseKind EXCEPT !.description = x] : x \in {Macro, Label, <<>>}}
    \cup {[BaseKind EXCEPT !.jpeg = 0], [BaseKind EXCEPT !.chroma = << 2, 2 >>],
          [BaseKind EXCEPT !.reduced = 1, !.description = <<>>],
          [BaseKind EXCEPT !.reference = << 1, 2 >>],
          [BaseKind EXCEPT !.reference = << 1, 2, 3, 4 >>]}
    \cup {[BaseKind EXCEPT !.arrays = a] : a \in ArrayKinds}
    \cup {[BaseKind EXCEPT !.tiles = MaxLen + 1, !.arrays = "counts_short"],
          [BaseKind EXCEPT !.rows = 2],
          [BaseKind EXCEPT !.tiled = FALSE],
          [BaseKind EXCEPT !.tiled = FALSE, !.description = <<>>]}

\* the TileOffsets and TileByteCounts tags of an IFD, in file order
ArrayTags(kind, i, is_bigtiff) ==
    LET long == IF kind.arrays = "shorts" THEN TIFF_UINT16
                ELSE IF is_bigtiff THEN TIFF_UINT64 ELSE TIFF_UINT32
        n == IF kind.arrays = "shorts" THEN kind.tiles + 1 ELSE kind.tiles
        offsets == Tag(TIFF_TAG_TILE_OFFSETS, long, [k \in 1..n |-> 1000 * i + k])
        counts(m) == Tag(TIFF_TAG_TILE_BYTE_COUNTS, long, [k \in 1..m |-> 100 * i + k])
    IN  CASE kind.arrays = "offsets_only" -> << offsets >>
          [] kind.arrays = "counts_only" -> << counts(n) >>
          [] kind.arrays = "counts_first" -> << counts(n), offsets >>
          [] kind.arrays = "counts_short" -> << offsets, counts(n - 1) >>
          [] kind.arrays = "counts_empty_first" -> << counts(0), offsets >>
          [] OTHER -> << offsets, counts(n) >>

IfdTags(kind, i, is_bigtiff) ==
    << Tag(TIFF_TAG_NEW_SUBFILE_TYPE, TIFF_UINT32, << kind.reduced >>),
       Tag(TIFF_TAG_IMAGE_WIDTH, TIFF_UINT16, << 512 * kind.tiles >>),
       Tag(TIFF_TAG_IMAGE_LENGTH, TIFF_UINT32, << 512 * kind.rows >>),
       Tag(TIFF_TAG_COMPRESSION, TIFF_UINT16, << 7 >>),
       Tag(TIFF_TAG_PHOTOMETRIC_INTERPRETATION, TIFF_UINT16, << 6 >>) >>
    \o (IF kind.description = <<>> THEN <<>>
        ELSE << Tag(TIFF_TAG_IMAGE_DESCRIPTION, TIFF_ASCII, kind.description \o << 0 >>) >>)
    \o (IF ~kind.tiled THEN <<>>
        ELSE << Tag(TIFF_TAG_TILE_WIDTH, TIFF_UINT16, << 512 >>),
                Tag(TIFF_TAG_TILE_LENGTH, TIFF_UINT16, << 512 >>) >>
             \o ArrayTags(kind, i, is_bigtiff))
    \o (IF kind.jpeg = 0 THEN <<>>
        ELSE << Tag(TIFF_TAG_JPEG_TABLES, TIFF_UNDEFINED, [k \in 1..kind.jpeg |-> 200 + k]) >>)
    \o (IF kind.chroma = <<>> THEN <<>>
        ELSE << Tag(TIFF_TAG_YCBCRSUBSAMPLING, TIFF_UINT16, kind.chroma) >>)
    \o (IF kind.reference = <<>> THEN <<>>
        ELSE << Tag(TIFF_TAG_REFERENCEBLACKWHITE, TIFF_RATIONAL, kind.reference) >>)

\* the TIFFs of the model: 1..MaxIfds IFDs, all of the base kind but one at
\* most, classic or BigTIFF; whole, with the last byte missing, or with an
\* IFD chain that loops
Tiffs ==
    { [ is_bigtiff |-> b, cut |-> v.cut, loops |-> v.loops,
        ifds |-> [i \in 1..Len(kinds) |-> IfdTags(kinds[i], i, b)] ] :
      b \in BOOLEAN,
      v \in { [cut |-> 0, loops |-> FALSE], [cut |-> 1, loops |-> FALSE],
              [cut |-> 0, loops |-> TRUE] },
      kinds \in UNION {Tuples(n, BaseKind, IfdKinds) : n \in 1..MaxIfds} }

InitTiff ==
    /\ pc = "open_begin"
    /\ tiff = [k \in 1..2 |-> ZeroTiff]
    /\ \E d \in Tiffs : file = << TiffBytes(d, FALSE), TiffBytes(d, TRUE) >>
    /\ fp = NoFp
    /\ buffer = NoBuffer
    /\ ser = NoSer
    /\ input = <<>>
    /\ des = NoDes
    /\ success = FALSE
    /\ heap = {}
    /\ lz4 = NoLz4
    /\ done_blocks = {}

NextTiff == OpenBegin \/ OpenReadIfd \/ OpenPush \/ OpenFinish \/ OpenNext

SpecTiff == InitTiff /\ [][NextTiff]_vars

\* open_tiff_file, and its caller between the two files, has a step to take
Running == pc \in {"open_begin", "open_ifds", "open_push"} \/ (pc = "opened" /\ fp.k = 1)

\* a step to another place of the code
Advance ==
    /\ Running
    /\ pc' \in {"open_begin", "open_ifds", "open_push", "opened", "crashed"}

\* open_tiff_file is one sequential call on one thread: while it has a step
\* to take, it takes it.  NextTiff has a step exactly where Running holds,
\* and every step of NextTiff changes pc, so that the weak fairness of
\* NextTiff is the weak fairness of Advance over pc.
SpecTiffLive == InitTiff /\ [][NextTiff]_vars /\ WF_pc(Advance)

(***************************************************************************)
(* Claims about the codec, checked under Spec.                             *)
(***************************************************************************)
\* the serial_block_t the block loop is about to read (when 16 bytes are left)
NextBlock == pop_block_from_buffer(des).block

Failure == pc = "returned" /\ ~success
FailurePrimed == pc' = "returned" /\ ~success'

\* the states of a run that started in tiff_serialize
RoundTrip == ser.total_size > 0

DescriptionBytes(ifd) == PtrRead(ifd.image_description, ifd.image_description_length)
JpegBytes(ifd) == PtrRead(ifd.jpeg_tables, ifd.jpeg_tables_length)

SameIfd(a, b) ==
    /\ a.image_width = b.image_width /\ a.image_height = b.image_height
    /\ a.tile_width = b.tile_width /\ a.tile_height = b.tile_height
    /\ a.tile_count = b.tile_count
    /\ a.width_in_tiles = b.width_in_tiles /\ a.height_in_tiles = b.height_in_tiles
    /\ U64s(a.tile_offsets) = U64s(b.tile_offsets)
    /\ U64s(a.tile_byte_counts) = U64s(b.tile_byte_counts)
    /\ a.image_description_length = b.image_description_length
    /\ DescriptionBytes(a) = DescriptionBytes(b)
    /\ a.jpeg_tables_length = b.jpeg_tables_length
    /\ JpegBytes(a) = JpegBytes(b)

SameImage(x, y) ==
    /\ x.ifd_count = y.ifd_count
    /\ Len(x.ifds) = Len(y.ifds)
    /\ \A k \in 1..Len(x.ifds) : SameIfd(x.ifds[k], y.ifds[k])

\* C1 (as claimed): whenever tiff_deserialize returns on the buffer that
\* tiff_serialize built from an Image X, for any ifd_count >= 0, it returns
\* success and the Image it rebuilt equals X in ifd_count, geometry,
\* tile_offsets, tile_byte_counts, image_description and jpeg_tables.
C1_RoundTrip ==
    (pc = "returned" /\ RoundTrip) => (success /\ SameImage(tiff[1], tiff[2]))

\* C2 (as claimed): after tiff_serialize returns, the decimal Content-length
\* of the HTTP headers equals buffer->used_size, compressed or not.
C2_ContentLength ==
    pc = "serialized" => ContentLength(buffer.http) = buffer.used_size

\* the (block_type, index) of the blocks of an uncompressed stream, in
\* order; bytes that are no whole block end the list with block_type -1
RECURSIVE BlockTrace(_, _)
BlockTrace(data, off) ==
    IF off = Len(data) THEN <<>>
    ELSE IF off + SizeofSerialBlock > Len(data)
    THEN << [block_type |-> -1, index |-> off] >>
    ELSE LET ty == U(Slice(data, off, 4))
             len == IF ty = SERIAL_BLOCK_TIFF_HEADER_AND_META THEN SizeofSerialHeader
                    ELSE U(Slice(data, off + 8, 8))
         IN  << [block_type |-> ty, index |-> U(Slice(data, off + 4, 4))] >>
             \o BlockTrace(data, off + SizeofSerialBlock + len)

ExpectedBlocks(ifd_count) ==
    << [block_type |-> SERIAL_BLOCK_TIFF_HEADER_AND_META, index |-> 0],
       [block_type |-> SERIAL_BLOCK_TIFF_IFDS, index |-> 0] >>
    \o Concat([k \in 1..ifd_count |->
         << [block_type |-> SERIAL_BLOCK_TIFF_IMAGE_DESCRIPTION, index |-> k - 1],
            [block_type |-> SERIAL_BLOCK_TIFF_TILE_OFFSETS, index |-> k - 1],
            [block_type |-> SERIAL_BLOCK_TIFF_TILE_BYTE_COUNTS, index |-> k - 1],
            [block_type |-> SERIAL_BLOCK_TIFF_JPEG_TABLES, index |-> k - 1] >>])
    \o << [block_type |-> SERIAL_BLOCK_TERMINATOR, index |-> 0] >>

IsPrefix(a, b) == Len(a) <= Len(b) /\ a = SubSeq(b, 1, Len(a))

\* C3: while tiff_serialize pushes the uncompressed stream, the blocks in
\* the buffer are a prefix of HEADER_AND_META, IFDS, then for each IFD in
\* increasing order IMAGE_DESCRIPTION, TILE_OFFSETS, TILE_BYTE_COUNTS,
\* JPEG_TABLES with that index, then TERMINATOR; once the terminator is
\* pushed they are exactly that list.
C3_BlockOrder ==
    /\ pc = "ser_ifd" =>
         IsPrefix(BlockTrace(buffer.data, 0), ExpectedBlocks(tiff[1].ifd_count))
    /\ pc = "ser_lz4" =>
         BlockTrace(buffer.data, 0) = ExpectedBlocks(tiff[1].ifd_count)

C3_Witness == pc = "ser_lz4" /\ tiff[1].ifd_count >= 2 /\ buffer.used_size = ser.total_size

\* C4: tiff_deserialize goes on past the first block (after the optional
\* LZ4 wrapper) only if its type is HEADER_AND_META, and past the block after
\* the fixed header record only if its type is IFDS and its length is
\* ifd_count * sizeof(tiff_serial_ifd_t); otherwise it returns failure.
C4_HeaderAndIfdsRequired ==
    [][ /\ pc = "des_lz4" =>
             \/ FailurePrimed
             \/ pc' = "des_meta"
                /\ des'.block.block_type = SERIAL_BLOCK_TIFF_HEADER_AND_META
        /\ pc = "des_ifds" =>
             \/ FailurePrimed
             \/ pc' = "des_loop"
                /\ des'.block.block_type = SERIAL_BLOCK_TIFF_IFDS
                /\ des'.block.length = tiff[2].ifd_count * SizeofSerialIfd
      ]_vars

C4_Witness ==
    /\ Failure /\ des.at = "ifds"
    /\ des.block.block_type = SERIAL_BLOCK_TIFF_IFDS
    /\ des.block.length # tiff[2].ifd_count * SizeofSerialIfd

\* C5 (as claimed): when the block loop reads a payload block whose type
\* and index it has accepted before, tiff_deserialize returns failure,
\* whatever the lengths of the two blocks.
C5_DuplicateGuard ==
    [][ ( /\ pc = "des_loop"
          /\ CanPop(des, SizeofSerialBlock)
          /\ NextBlock.block_type \in PayloadTypes
          /\ [block_type |-> NextBlock.block_type, index |-> NextBlock.index]
                \in done_blocks )
        => FailurePrimed ]_vars

\* C6: when the block loop reads a payload block whose index is >=
\* ifd_count, tiff_deserialize returns failure and no field of any IFD (or
\* of the Image) is written.
C6_IndexGuard ==
    [][ ( /\ pc = "des_loop"
          /\ CanPop(des, SizeofSerialBlock)
          /\ NextBlock.block_type \in PayloadTypes
          /\ NextBlock.index >= tiff[2].ifd_count )
        => (FailurePrimed /\ tiff' = tiff) ]_vars

C6_Witness ==
    /\ Failure /\ des.at = "index"
    /\ des.block.block_type \in PayloadTypes
    /\ tiff[2].ifd_count >= 1
    /\ des.block.index >= tiff[2].ifd_count

\* C7 (as claimed): in the block loop a TERMINATOR block with index 0 and
\* no payload ends the loop and the call returns success, for every
\* ifd_count; when no whole block is left the call returns failure.
C7_Terminator ==
    [][ /\ ( /\ pc = "des_loop"
             /\ CanPop(des, SizeofSerialBlock)
             /\ NextBlock.block_type = SERIAL_BLOCK_TERMINATOR
             /\ NextBlock.index = 0
             /\ NextBlock.length = 0 )
           => pc' = "des_end"
        /\ pc = "des_end" => (pc' = "returned" /\ success')
        /\ (pc = "des_loop" /\ ~CanPop(des, SizeofSerialBlock)) => FailurePrimed
      ]_vars

\* C8: when the first block is LZ4_COMPRESSED_DATA and LZ4_decompress_safe
\* returns an error or a count that differs from the block's index field,
\* tiff_deserialize returns failure; and whenever it returns, the scratch
\* decompression buffer has been freed.
C8_DecompressionGuard ==
    [][ /\ ( /\ pc = "des_lz4"
             /\ des.block.block_type = SERIAL_BLOCK_LZ4_COMPRESSED_DATA
             /\ CanPop(des, des.block.length)
             /\ LET n == LZ4_decompress_safe(
                            Slice(Current(des), des.pos, des.block.length),
                            des.block.index)
                IN  n <= 0 \/ n # des.block.index )
           => FailurePrimed
        /\ pc' = "returned" => "decompressed_buffer" \notin heap'
      ]_vars

C8_Witness ==
    /\ Failure /\ des.at = "lz4"
    /\ des.block.block_type = SERIAL_BLOCK_LZ4_COMPRESSED_DATA
    /\ des.bytes_decompressed > 0
    /\ des.bytes_decompressed # des.block.index
    /\ ~des.decompressed_buffer.null
    /\ "decompressed_buffer" \notin heap

HasCRLFCRLF(s) == \E o \in 0..(Len(s) - 4) : Slice(s, o, 4) = CRLFCRLF

FirstCRLFCRLF(s) ==
    CHOOSE o \in 0..(Len(s) - 4) :
        /\ Slice(s, o, 4) = CRLFCRLF
        /\ \A o2 \in 0..(o - 1) : Slice(s, o2, 4) # CRLFCRLF

\* C9 (as claimed): tiff_deserialize never returns success on an input that
\* holds no "\r\n\r\n"; and on an input that holds one, once the header scan
\* is done, blocks are decoded from the byte right after the first
\* "\r\n\r\n", wherever that is (the last four bytes included).
C9_HeaderScan ==
    /\ (pc = "returned" /\ ~HasCRLFCRLF(input)) => ~success
    /\ ( /\ pc \in {"des_lz4", "des_meta", "des_ifds", "des_loop", "des_end", "returned"}
         /\ HasCRLFCRLF(input) )
       => des.content_offset = FirstCRLFCRLF(input) + 4

(***************************************************************************)
(* Claims about the TIFF reader, checked under SpecTiff.                   *)
(***************************************************************************)
\* a tiff_t with its is_big_endian field blanked
BlankEndian(t) == [t EXCEPT !.is_big_endian = 0]

\* both files have been through open_tiff_file
OpenedBoth == pc = "opened" /\ fp.k = 2

\* C10 (as claimed): once open_tiff_file has returned on the little-endian
\* and on the big-endian encoding of one TIFF, both calls succeeded or both
\* failed, and when they succeeded the two tiff_t agree in ifd_count and in
\* every field of the Image and of its IFDs except is_big_endian.
C10_EndiannessSymmetry ==
    OpenedBoth =>
        /\ fp.result[1] = fp.result[2]
        /\ fp.result[1] => BlankEndian(tiff[1]) = BlankEndian(tiff[2])

\* open_tiff_file has returned true on the file it was parsing
Opened == pc = "opened" /\ fp.result[fp.k]

\* the tile arrays of an IFD agree with its tile_count and its geometry
TilesCoherent(ifd) ==
    /\ Len(U64s(ifd.tile_offsets)) = ifd.tile_count
    /\ Len(U64s(ifd.tile_byte_counts)) = ifd.tile_count
    /\ ifd.tile_count = ifd.width_in_tiles * ifd.height_in_tiles

\* C11 (as claimed): once open_tiff_file has returned true, every IFD of the
\* Image with tile_width > 0 has as many elements in tile_offsets as in
\* tile_byte_counts, and that number is its tile_count and is
\* width_in_tiles * height_in_tiles, whichever of the TileOffsets and
\* TileByteCounts tags the file has, in whichever order, with the values in
\* the value field or behind an offset.
C11_TileCountCoherence ==
    Opened =>
        \A i \in 1..tiff[fp.k].ifd_count :
            tiff[fp.k].ifds[i].tile_width > 0 => TilesCoherent(tiff[fp.k].ifds[i])

\* the tags of the IFD at next_ifd_offset as tiff_read_ifd decodes them
\* (tiff.c:221-279), <<>> when they cannot be read
TagsAt(t, f, next_ifd_offset) ==
    LET is_bigtiff == t.is_bigtiff = 1
        is_big_endian == t.is_big_endian = 1
        pos0 == U(next_ifd_offset)
        tag_count_num_bytes == IF is_bigtiff THEN 8 ELSE 2
        tag_count == U(maybe_swap(Slice(f, pos0, tag_count_num_bytes), is_big_endian))
        tag_size == IF is_bigtiff THEN 20 ELSE 12
        pos1 == pos0 + tag_count_num_bytes
    IN  IF \/ SeekFails(next_ifd_offset)
           \/ ~CanRead(f, pos0, tag_count_num_bytes)
           \/ ~CanRead(f, pos1, tag_count * tag_size)
        THEN <<>>
        ELSE [i \in 1..tag_count |->
                DecodeTag(Slice(f, pos1 + (i - 1) * tag_size, tag_size),
                          is_bigtiff, is_big_endian)]

\* the IFD has a TileByteCounts tag of at least least values whose
\* data_count differs from the data_count of the TileOffsets tag before it
CountsDiffer(tags, least) ==
    \E i, j \in 1..Len(tags) :
        /\ i < j
        /\ tags[i].code = TIFF_TAG_TILE_OFFSETS
        /\ tags[j].code = TIFF_TAG_TILE_BYTE_COUNTS
        /\ \A k \in (i + 1)..(j - 1) : tags[k].code # TIFF_TAG_TILE_OFFSETS
        /\ tags[j].data_count # tags[i].data_count
        /\ tags[j].data_count >= least

TypeByDescription(ifd) ==
    IF ~ifd.image_description.null /\ StartsWith(ifd.image_description, Macro)
    THEN TIFF_MACRO_SUBIMAGE
    ELSE IF ~ifd.image_description.null /\ StartsWith(ifd.image_description, Label)
    THEN TIFF_LABEL_SUBIMAGE
    ELSE TIFF_LEVEL_SUBIMAGE

\* C13 (as claimed): once open_tiff_file has returned true on a file with at
\* least one IFD, IFD 0 has the subimage_type MACRO or LABEL when its
\* image_description begins with "Macro" or "Label" and LEVEL otherwise,
\* whatever tags it carries, a TileWidth tag and a description or not.
C13_FirstIfdIsLevel ==
    Opened /\ tiff[fp.k].ifd_count >= 1 =>
        tiff[fp.k].ifds[1].subimage_type = TypeByDescription(tiff[fp.k].ifds[1])

\* C14 (as claimed): once tiff_deserialize has returned true, every IFD of
\* the Image it has built holds tile_count u64 elements in tile_offsets and
\* tile_count u64 elements in tile_byte_counts; so no stream is accepted
\* in which an IFD with tile_count > 0 lacks its TILE_OFFSETS or
\* TILE_BYTE_COUNTS block or has one of a length other than tile_count * 8.
C14_DeserializedTileCounts ==
    pc = "returned" /\ success =>
        \A i \in 1..tiff[2].ifd_count :
            /\ Len(U64s(tiff[2].ifds[i].tile_offsets)) = tiff[2].ifds[i].tile_count
            /\ Len(U64s(tiff[2].ifds[i].tile_byte_counts)) = tiff[2].ifds[i].tile_count

\* the allocations made by open_tiff_file or tiff_deserialize that are
\* live and that no tiff_t owns (raw_memory is the serializer's, and is
\* owned by the buffer it was made for)
Lost == heap \ {"raw_memory"}

\* C15 (as claimed): whenever open_tiff_file or tiff_deserialize has
\* returned false, every buffer allocated during the call has been freed or
\* is owned by the tiff_t passed in: no allocation is lost, the buffers of
\* the IFD that tiff_read_ifd was parsing when it failed included.
C15_NoAllocationLost ==
    \/ pc = "opened" /\ ~fp.result[fp.k]
    \/ pc = "returned" /\ ~success
    => Lost = {}

\* the raw tags of the IFD at next_ifd_offset (tiff.c:221-237), <<>> when
\* they cannot be read
RawTagsAt(t, f, next_ifd_offset) ==
    LET pos0 == U(next_ifd_offset)
        tag_count_num_bytes == IF t.is_bigtiff = 1 THEN 8 ELSE 2
        tag_count == U(maybe_swap(Slice(f, pos0, tag_count_num_bytes), t.is_big_endian = 1))
        tag_size == IF t.is_bigtiff = 1 THEN 20 ELSE 12
        pos1 == pos0 + tag_count_num_bytes
    IN  IF \/ SeekFails(next_ifd_offset)
           \/ ~CanRead(f, pos0, tag_count_num_bytes)
           \/ ~CanRead(f, pos1, tag_count * tag_size)
        THEN <<>>
        ELSE [i \in 1..tag_count |-> Slice(f, pos1 + (i - 1) * tag_size, tag_size)]

\* the bytes b, each run of size bytes reversed
PerElementSwap(b, size) ==
    [k \in 1..Len(b) |->
        LET first == ((k - 1) \div size) * size IN b[first + size - (k - 1 - first)]]

\* the 8-byte slot of a big-endian tag with every element swapped on its own
SlotSwappedPerElement(raw, is_bigtiff) ==
    LET w == IF is_bigtiff THEN 8 ELSE 4
        data_type == U(bswap(Slice(raw, 2, 2)))
        data_count == U(bswap(Slice(raw, 4, w)))
        data_size == get_tiff_field_size(data_type) * data_count
        slot == Slice(raw, 4 + w, w) \o Zeros(8 - w)
    IN  IF get_tiff_field_size(data_type) = 0 THEN slot
        ELSE PerElementSwap(SubSeq(slot, 1, data_size), ValueSize(data_type))
             \o SubSeq(slot, data_size + 1, 8)

\* C16 (as claimed): every tag of a big-endian file whose values are in the
\* value field has, after tiff_read_ifd has decoded it, each of its
\* data_count elements byte-swapped at its own size, a RATIONAL or
\* SRATIONAL as two components of 32 bits, and the decoding has touched no
\* byte outside the 8-byte slot of the tag.
C16_PerElementSwap ==
    pc = "open_ifds" /\ tiff[fp.k].is_big_endian = 1 =>
        LET raws == RawTagsAt(tiff[fp.k], file[fp.k], fp.next_ifd_offset)
        IN  \A i \in 1..Len(raws) :
              LET tag == DecodeTag(raws[i], tiff[fp.k].is_bigtiff = 1, TRUE)
              IN  ~tag.data_is_offset =>
                    /\ tag.data = SlotSwappedPerElement(raws[i], tiff[fp.k].is_bigtiff = 1)
                    /\ ~tag.behind_slot

\* C17 (as claimed): tiff_serialize never takes the branch of push_size that
\* ends the process, and used_size never exceeds the capacity of the push
\* buffer, whatever the Image and whatever positive size, up to
\* LZ4_COMPRESSBOUND(total_size), the compression returns.
C17_PushNeverOverflows ==
    /\ pc # "exited"
    /\ ~buffer.exited
    /\ buffer.used_size <= buffer.capacity

\* C18 (as claimed): every byte that tiff_deserialize writes into the
\* buffer it has just allocated for the image_description, tile_offsets,
\* tile_byte_counts or jpeg_tables of an IFD, the NUL behind the copied
\* bytes included, lies inside the allocation, for a block of any length.
C18_PayloadWritesInBounds ==
    des.write_end <= des.write_alloc

\* C19 (as claimed): on every file the walk of open_tiff_file over the IFD
\* chain comes to an end: after finitely many IFDs open_tiff_file returns,
\* having read a next-IFD offset of 0 or having failed (or the process has
\* ended), also when a next-IFD offset of the file points back to an IFD
\* that the walk has read before.
C19_WalkTerminates ==
    <>(pc \in {"opened", "crashed"})

====
